---- MODULE Spec2Model ----
(***************************************************************************)
(* The provider / event-relay subsystem of the Giphy connector:            *)
(*   - DefaultProvider (connector-go/provider/default_provider.go): the    *)
(*     registry of installations and instances with its staging lists,     *)
(*     the action channel and the update channel;                          *)
(*   - GiphyProvider (giphy.go): the periodic update goroutine and the     *)
(*     action handler goroutine sharing one Giphy client under clientLock; *)
(*   - DefaultConnectorService (connector-go/service/default_service.go):  *)
(*     the callbacks invoked by the HTTP handler, and the event handler.   *)
(* The goroutines are interleaved statement by statement where they touch  *)
(* shared fields, since the registry fields are not protected by a lock.   *)
(***************************************************************************)
EXTENDS Naturals, Sequences, FiniteSets, TLC

\* ------------------------------------------------------------------ bounds
MaxCalls == 1

\* The number of action requests of a burst.
MaxBurst == 6

\* The number of action requests followed from the callback to the relay.
MaxOrdered == 3

\* The number of instance callbacks when an instance is removed and added again.
MaxReinstall == 2

InstallationIds == {"a", "b"}
InstanceIds == {"i1", "i2"}
ApiKeys == {"k1", "k2"}
ActionIds == {"search", "other"}
BurstActionIds == {"search"}

\* ------------------------------------------------------- program constants
updateChannelBufferSize == 5
actionChannelBufferSize == 5

RandomComponentId == "random"
RandomPropertyId == "value"
SearchComponentId == "search"
SearchPropertyId == "value"

ActionRequestStatusCompleted == "COMPLETED"
ActionRequestStatusPending == "PENDING"
ActionRequestStatusFailed == "FAILED"

\* -------------------------------------------------------------- data model
\* A configuration list either holds the giphy_api_key entry or is empty.
ConfigOf(key) == << [ID |-> "giphy_api_key", Value |-> key] >>

Configurations == {<< >>} \cup {ConfigOf(k) : k \in ApiKeys}

\* Installation.GetConfig: linear search for the first entry with the id.
RECURSIVE GetConfigFrom(_, _, _)
GetConfigFrom(conf, id, i) ==
    IF i > Len(conf) THEN [ok |-> FALSE, Value |-> ""]
    ELSE IF conf[i].ID = id THEN [ok |-> TRUE, Value |-> conf[i].Value]
    ELSE GetConfigFrom(conf, id, i + 1)

GetConfig(installation, id) == GetConfigFrom(installation.Configuration, id, 1)

Installation(id, conf) == [ID |-> id, Configuration |-> conf]

\* The platform issues the thing id when the thing is created.
ThingIdOf(instanceId) == << "thing", instanceId >>

Instance(id, installationId, things) ==
    [ID |-> id, InstallationID |-> installationId, ThingMapping |-> things]

VARIABLES
    \* DefaultProvider
    Installations,          \* map installation id -> Installation (live)
    Instances,              \* live instance list
    newInstances,
    instancesToRemove,
    newInstallations,
    installationsToRemove,
    actionChannel,
    updateChannel,
    \* GiphyProvider
    APIKey,                 \* giphyClient.APIKey
    clientLock,             \* "" when free, else the goroutine holding it
    \* periodicUpdate goroutine
    pollPC, pollRange, pollIdx, pollKey, pollGif,
    \* actionHandler goroutine
    actPC, pendingAction, actKey, actUpdate,
    \* database (system of record)
    dbInstallations,        \* map installation id -> configuration rows
    dbInstances,            \* map instance id -> [InstallationID, things]
    \* bookkeeping of the run
    nCalls,                 \* number of callbacks served so far
    lastCall,               \* the callback served last and its answer
    emitted,                \* request id -> terminal events emitted for it
    remInstallation,        \* installation id -> progress of its removal
    remInstance,            \* instance id -> progress of its removal
    updQuiet,               \* no registry call since Update started
    updRun,                 \* Updates completed in a row with no registry call
    relayed,                \* platform calls of the last relayed action event
    httpResponse,           \* the answer written to the last HTTP request
    \* the context handed to Run
    ctxDone                 \* ctx.Done() is closed

provVars == << Installations, Instances, newInstances, instancesToRemove,
               newInstallations, installationsToRemove >>
chanVars == << actionChannel, updateChannel >>
clientVars == << APIKey, clientLock >>
pollVars == << pollPC, pollRange, pollIdx, pollKey, pollGif >>
actVars == << actPC, pendingAction, actKey, actUpdate >>
dbVars == << dbInstallations, dbInstances >>
ghostVars == << nCalls, lastCall, emitted, remInstallation, remInstance, updQuiet >>
relayVars == << updRun, relayed, httpResponse >>

vars == << provVars, chanVars, clientVars, pollVars, actVars, dbVars, ghostVars,
           relayVars, ctxDone >>

\* ------------------------------------------------------------- map helpers
EmptyMap == [x \in {} |-> x]
MapPut(m, k, v) == [x \in DOMAIN m \cup {k} |-> IF x = k THEN v ELSE m[x]]
MapDel(m, k) == [x \in DOMAIN m \ {k} |-> m[x]]

RECURSIVE SeqOf(_)
SeqOf(S) == IF S = {} THEN << >>
            ELSE LET x == CHOOSE y \in S : TRUE IN << x >> \o SeqOf(S \ {x})

\* ------------------------------------------- DefaultProvider: pure helpers
\* findIndex: the index of the first instance with the id. Go's 0-based
\* index i is i + 1 here, and Go's -1 (not found) is 0.
RECURSIVE findIndexFrom(_, _, _)
findIndexFrom(instances, instanceId, i) ==
    IF i > Len(instances) THEN 0
    ELSE IF instances[i].ID = instanceId THEN i
    ELSE findIndexFrom(instances, instanceId, i + 1)

findIndex(instances, instanceId) == findIndexFrom(instances, instanceId, 1)

\* remove: overwrite the slot with the last element, then drop the last.
remove(instances, index) ==
    SubSeq([instances EXCEPT ![index] = instances[Len(instances)]],
           1, Len(instances) - 1)

\* The loop of RemoveInstances over the ids marked for removal.
RECURSIVE RemoveInstancesLoop(_, _, _)
RemoveInstancesLoop(instances, ids, i) ==
    IF i > Len(ids) THEN instances
    ELSE LET index == findIndex(instances, ids[i]) IN
         RemoveInstancesLoop(IF index > 0 THEN remove(instances, index)
                                          ELSE instances,
                             ids, i + 1)

\* The loop of RemoveInstallations: delete(p.Installations, id) for each id.
RECURSIVE RemoveInstallationsLoop(_, _, _)
RemoveInstallationsLoop(installations, ids, i) ==
    IF i > Len(ids) THEN installations
    ELSE RemoveInstallationsLoop(MapDel(installations, ids[i]), ids, i + 1)

\* The loop of AddNewInstallations: p.Installations[in.ID] = in for each.
RECURSIVE AddNewInstallationsLoop(_, _, _)
AddNewInstallationsLoop(installations, new, i) ==
    IF i > Len(new) THEN installations
    ELSE AddNewInstallationsLoop(MapPut(installations, new[i].ID, new[i]),
                                 new, i + 1)

InstanceIdsOf(instances) == {instances[i].ID : i \in 1..Len(instances)}

\* ---------------------------------------------------------------- database
\* The rows a previous run of the connector can have left behind.
Row(installationId, things) == [InstallationID |-> installationId, things |-> things]

InitialDBs ==
    { \* nothing installed yet
      [installations |-> EmptyMap, instances |-> EmptyMap],
      \* two installations with their own keys, one instance each
      [installations |-> [x \in {"a", "b"} |->
                             IF x = "a" THEN ConfigOf("k1") ELSE ConfigOf("k2")],
       instances |-> [x \in {"i1", "i2"} |->
                             IF x = "i1" THEN Row("a", << ThingIdOf("i1") >>)
                                         ELSE Row("b", << ThingIdOf("i2") >>)]],
      \* an installation without the key, and an instance of a missing one
      [installations |-> [x \in {"a"} |-> << >>],
       instances |-> [x \in {"i1", "i2"} |->
                             IF x = "i1" THEN Row("a", << ThingIdOf("i1") >>)
                                         ELSE Row("b", << ThingIdOf("i2") >>)]],
      \* an instance whose thing was never created
      [installations |-> [x \in {"a"} |-> ConfigOf("k1")],
       instances |-> [x \in {"i1"} |-> Row("a", << >>)]] }

\* GetInstallations / GetInstances: every row, as Installation / Instance.
GetInstallations(db) ==
    LET ids == SeqOf(DOMAIN db) IN
    [i \in 1..Len(ids) |-> Installation(ids[i], db[ids[i]])]

GetInstances(db) ==
    LET ids == SeqOf(DOMAIN db) IN
    [i \in 1..Len(ids) |-> Instance(ids[i], db[ids[i]].InstallationID, db[ids[i]].things)]

\* GetInstanceByThingId: the ids of the instances mapped to the thing.
InstancesByThingId(db, thingId) ==
    {id \in DOMAIN db : \E j \in 1..Len(db[id].things) : db[id].things[j] = thingId}

\* No update with an action event has been relayed; no request was answered.
NoRelay == [update |-> << >>, calls |-> << >>]
NoResponse == [Code |-> 0, Error |-> "", Body |-> << >>]

NoCall == [op |-> "none", id |-> "", arg |-> "", perr |-> "", err |-> "", status |-> ""]

\* ------------------------------------------------------------------- Init
\* provider.New(), NewGiphyProvider(), then NewConnectorService -> init():
\* the installations and instances of the database are registered (staged).
InitWith(db) ==
    /\ dbInstallations = db.installations
    /\ dbInstances = db.instances
    /\ Installations = EmptyMap
    /\ Instances = << >>
    /\ newInstallations = GetInstallations(db.installations)
    /\ newInstances = GetInstances(db.instances)
    /\ instancesToRemove = << >>
    /\ installationsToRemove = << >>
    /\ actionChannel = << >>
    /\ updateChannel = << >>
    /\ APIKey = ""
    /\ clientLock = ""
    /\ pollPC = "ticker"
    /\ pollRange = << >>
    /\ pollIdx = 0
    /\ pollKey = ""
    /\ pollGif = ""
    /\ actPC = "receive"
    /\ pendingAction = << >>
    /\ actKey = ""
    /\ actUpdate = << >>
    /\ nCalls = 0
    /\ lastCall = NoCall
    /\ emitted = [r \in {} |-> 0]
    /\ remInstallation = [id \in InstallationIds |-> "none"]
    /\ remInstance = [id \in InstanceIds |-> "none"]
    /\ updRun = "none"
    /\ relayed = NoRelay
    /\ httpResponse = NoResponse
    /\ updQuiet = TRUE
    /\ ctxDone = FALSE

Init == \E db \in InitialDBs : InitWith(db)

\* ------------------------------------------ DefaultProvider: registry calls
\* The registry fields of the provider, as the receiver p of a method.
Provider ==
    [Installations |-> Installations, Instances |-> Instances,
     newInstances |-> newInstances, instancesToRemove |-> instancesToRemove,
     newInstallations |-> newInstallations,
     installationsToRemove |-> installationsToRemove]

\* RegisterInstances appending to the live list instead of the staging list.
RegisterInstancesLive(instances) ==
    [p |-> [Provider EXCEPT !.Instances = Instances \o instances], err |-> ""]

\* Each method returns the provider it leaves and its error ("" is nil).
RegisterInstances(instances) ==
    [p |-> [Provider EXCEPT !.newInstances = newInstances \o instances],
     err |-> ""]

\* RemoveInstance without the lookup in the live list.
RemoveInstanceUnchecked(instanceId) ==
    [p |-> [Provider EXCEPT !.instancesToRemove =
                                Append(instancesToRemove, instanceId)],
     err |-> ""]

RemoveInstance(instanceId) ==
    LET index == findIndex(Instances, instanceId) IN
    IF index > 0
    THEN [p |-> [Provider EXCEPT !.instancesToRemove =
                                     Append(instancesToRemove, instanceId)],
          err |-> ""]
    ELSE [p |-> Provider, err |-> "instance not found"]

RegisterInstallations(installations) ==
    [p |-> [Provider EXCEPT !.newInstallations = newInstallations \o installations],
     err |-> ""]

RemoveInstallation(installationId) ==
    IF installationId \notin DOMAIN Installations
    THEN [p |-> Provider, err |-> "installation not found"]
    ELSE [p |-> [Provider EXCEPT !.installationsToRemove =
                                     Append(installationsToRemove, installationId)],
          err |-> ""]

\* PendingAction{actionRequest, instance}
PendingActionUnnumbered(actionRequest, instance) ==
    [ID |-> 0, ThingID |-> actionRequest.ThingID,
     ActionID |-> actionRequest.ActionID, Parameters |-> actionRequest.Parameters,
     Instance |-> instance]

PendingAction(actionRequest, instance) ==
    [ID |-> actionRequest.ID, ThingID |-> actionRequest.ThingID,
     ActionID |-> actionRequest.ActionID, Parameters |-> actionRequest.Parameters,
     Instance |-> instance]

\* RequestAction rejecting every action but "search" in the call itself.
RequestActionRejecting(instance, actionRequest) ==
    IF actionRequest.ActionID = "search"
    THEN [actionChannel |-> Append(actionChannel,
                                   PendingAction(actionRequest, instance)),
          status |-> ActionRequestStatusPending, err |-> ""]
    ELSE [actionChannel |-> actionChannel, status |-> ActionRequestStatusFailed,
          err |-> "action not supported"]

\* RequestAction answering Pending without the send to the action channel.
RequestActionUnsent(instance, actionRequest) ==
    [actionChannel |-> actionChannel, status |-> ActionRequestStatusPending,
     err |-> ""]

\* RequestAction: every action request is sent to the action channel.
RequestAction(instance, actionRequest) ==
    [actionChannel |-> Append(actionChannel, PendingAction(actionRequest, instance)),
     status |-> ActionRequestStatusPending, err |-> ""]

\* ------------------------------------------------ HTTP handlers: answers
StatusOK == 200
StatusCreated == 201
StatusNoContent == 204
StatusBadRequest == 400
StatusInternalServerError == 500

\* The errors of type connector.Error, which carry their own status code.
ConnectorErrors == {"BAD_SIGNATURE", "MISSING_HEADER", "SIGNING_FAILED",
                    "INVALID_BODY", "BAD_CONTENT_TYPE", "BAD_REQUEST_BODY",
                    "INVALID_JSON_BODY"}

\* writeError: a connector.Error writes its code, any other error gives 500.
writeError(err) ==
    [Code |-> IF err \in ConnectorErrors THEN StatusBadRequest
              ELSE StatusInternalServerError,
     Error |-> err, Body |-> << >>]

\* w.WriteHeader(code) with no body.
WriteHeader(code) == [Code |-> code, Error |-> "", Body |-> << >>]

\* AddInstallation / AddInstance handler: the service returns a nil response.
AddAnswer(err) == IF err # "" THEN writeError(err) ELSE WriteHeader(StatusCreated)

\* RemoveInstallation / RemoveInstance handler.
RemoveAnswer(err) == IF err # "" THEN writeError(err) ELSE WriteHeader(StatusNoContent)

\* PerformAction returning the failed lookup as an error.
PerformActionResultLookupError(found, status, err) ==
    IF ~found
    THEN [response |-> << >>, err |-> "thing ID was not found at connector"]
    ELSE IF err # ""
    THEN [response |-> << [ID |-> 0, Status |-> status, Error |-> err] >>,
          err |-> err]
    ELSE IF status = ActionRequestStatusPending
    THEN [response |-> << [ID |-> 0, Status |-> status, Error |-> ""] >>,
          err |-> ""]
    ELSE [response |-> << >>, err |-> ""]

\* DefaultConnectorService.PerformAction after the lookup of the instance:
\* the response (a nil pointer is << >>) and the error it returns.
PerformActionResult(found, status, err) ==
    IF ~found
    THEN [response |-> << [ID |-> 0, Status |-> ActionRequestStatusFailed,
                           Error |-> "thing ID was not found at connector"] >>,
          err |-> ""]
    ELSE IF err # ""
    THEN [response |-> << [ID |-> 0, Status |-> status, Error |-> err] >>,
          err |-> err]
    ELSE IF status = ActionRequestStatusPending
    THEN [response |-> << [ID |-> 0, Status |-> status, Error |-> ""] >>,
          err |-> ""]
    ELSE [response |-> << >>, err |-> ""]

\* PerformAction handler: an error is written by writeError, a response is
\* given the request id and written with 200, no response gives 204.
PerformActionAnswer(result, requestId) ==
    IF result.err # "" THEN writeError(result.err)
    ELSE IF result.response # << >>
    THEN [Code |-> StatusOK, Error |-> "",
          Body |-> << [result.response[1] EXCEPT
                          !.ID = IF @ = 0 THEN requestId ELSE @] >>]
    ELSE WriteHeader(StatusNoContent)

\* ------------------------------------- DefaultConnectorService: callbacks
UpdatePCs == {"RemoveInstances", "clearInstancesToRemove", "AddNewInstances",
              "clearNewInstances", "RemoveInstallations",
              "clearInstallationsToRemove", "AddNewInstallations"}

\* The provider is left as p by the callback.
ProviderBecomes(p) ==
    /\ Installations' = p.Installations
    /\ Instances' = p.Instances
    /\ newInstances' = p.newInstances
    /\ instancesToRemove' = p.instancesToRemove
    /\ newInstallations' = p.newInstallations
    /\ installationsToRemove' = p.installationsToRemove

\* A registry method was called: Update, if under way, did not run alone.
RegistryCalled ==
    /\ updQuiet' = (updQuiet /\ pollPC \notin UpdatePCs)
    /\ updRun' = "none"

Served(op, id, arg, perr, err, status) ==
    /\ nCalls' = nCalls + 1
    /\ lastCall' = [op |-> op, id |-> id, arg |-> arg, perr |-> perr,
                    err |-> err, status |-> status]

AddInstallationFailures == {"none", "AddInstallation", "AddInstallationConfiguration"}

\* AddInstallation registering before the rows are written.
ServiceAddInstallationEager(id, conf, fail) ==
    LET failed == IF id \in DOMAIN dbInstallations \/ fail = "AddInstallation"
                  THEN "AddInstallation"
                  ELSE IF fail = "AddInstallationConfiguration" /\ Len(conf) > 0
                  THEN "AddInstallationConfiguration"
                  ELSE "none"
        reg == RegisterInstallations(<< Installation(id, conf) >>)
    IN
    /\ nCalls < MaxCalls
    /\ dbInstallations' =
          IF failed = "AddInstallation" THEN dbInstallations
          ELSE IF failed = "AddInstallationConfiguration"
          THEN MapPut(dbInstallations, id, << >>)
          ELSE MapPut(dbInstallations, id, conf)
    /\ ProviderBecomes(reg.p)
    /\ remInstallation' = [remInstallation EXCEPT ![id] = "none"]
    /\ RegistryCalled
    /\ IF failed = "none"
       THEN Served("AddInstallation", id, "registered", reg.err, "", "")
       ELSE Served("AddInstallation", id, "", "", "failed to insert installation", "")
    /\ UNCHANGED << chanVars, clientVars, pollVars, actVars, dbInstances,
                    emitted, remInstance >>
    /\ httpResponse' = AddAnswer(lastCall'.err)
    /\ UNCHANGED relayed
    /\ UNCHANGED ctxDone

\* AddInstallation: the rows are written, then the installation is registered.
ServiceAddInstallationCall(id, conf, fail) ==
    LET failed == IF id \in DOMAIN dbInstallations \/ fail = "AddInstallation"
                  THEN "AddInstallation"
                  ELSE IF fail = "AddInstallationConfiguration" /\ Len(conf) > 0
                  THEN "AddInstallationConfiguration"
                  ELSE "none"
        reg == RegisterInstallations(<< Installation(id, conf) >>)
    IN
    /\ dbInstallations' =
          IF failed = "AddInstallation" THEN dbInstallations
          ELSE IF failed = "AddInstallationConfiguration"
          THEN MapPut(dbInstallations, id, << >>)
          ELSE MapPut(dbInstallations, id, conf)
    /\ IF failed = "none"
       THEN /\ ProviderBecomes(reg.p)
            /\ remInstallation' = [remInstallation EXCEPT ![id] = "none"]
            /\ RegistryCalled
            /\ Served("AddInstallation", id, "registered", reg.err, "", "")
       ELSE /\ UNCHANGED << provVars, remInstallation, updQuiet, updRun >>
            /\ Served("AddInstallation", id, "", "", "failed to insert installation", "")
    /\ UNCHANGED << chanVars, clientVars, pollVars, actVars, dbInstances,
                    emitted, remInstance >>
    /\ httpResponse' = AddAnswer(lastCall'.err)
    /\ UNCHANGED relayed
    /\ UNCHANGED ctxDone

\* The installation callback, while the platform has calls left to send.
ServiceAddInstallation(id, conf, fail) ==
    /\ nCalls < MaxCalls
    /\ ServiceAddInstallationCall(id, conf, fail)

\* RemoveInstallation returning the provider's error without deleting the row.
ServiceRemoveInstallationStrict(id, dbFail) ==
    LET rem == RemoveInstallation(id) IN
    /\ nCalls < MaxCalls
    /\ ProviderBecomes(rem.p)
    /\ dbInstallations' = IF dbFail \/ rem.err # "" THEN dbInstallations
                          ELSE MapDel(dbInstallations, id)
    /\ remInstallation' =
          IF rem.err = "" THEN [remInstallation EXCEPT ![id] = "staged"]
          ELSE remInstallation
    /\ RegistryCalled
    /\ Served("RemoveInstallation", id, "", rem.err,
              IF rem.err # "" THEN rem.err
              ELSE IF dbFail THEN "failed to remove installation" ELSE "", "")
    /\ UNCHANGED << chanVars, clientVars, pollVars, actVars, dbInstances,
                    emitted, remInstance >>
    /\ httpResponse' = RemoveAnswer(lastCall'.err)
    /\ UNCHANGED relayed
    /\ UNCHANGED ctxDone

\* RemoveInstallation: a provider error is logged, then the row is deleted.
ServiceRemoveInstallationCall(id, dbFail) ==
    LET rem == RemoveInstallation(id) IN
    /\ ProviderBecomes(rem.p)
    /\ dbInstallations' = IF dbFail THEN dbInstallations
                          ELSE MapDel(dbInstallations, id)
    /\ remInstallation' =
          IF rem.err = "" THEN [remInstallation EXCEPT ![id] = "staged"]
          ELSE remInstallation
    /\ RegistryCalled
    /\ Served("RemoveInstallation", id, "", rem.err,
              IF dbFail THEN "failed to remove installation" ELSE "", "")
    /\ UNCHANGED << chanVars, clientVars, pollVars, actVars, dbInstances,
                    emitted, remInstance >>
    /\ httpResponse' = RemoveAnswer(lastCall'.err)
    /\ UNCHANGED relayed
    /\ UNCHANGED ctxDone

\* The installation removal callback, while the platform has calls left to send.
ServiceRemoveInstallation(id, dbFail) ==
    /\ nCalls < MaxCalls
    /\ ServiceRemoveInstallationCall(id, dbFail)

AddInstanceFailures == {"none", "AddInstance", "AddInstanceConfiguration",
                        "CreateThing", "AddThingID"}

\* AddInstance registering before the row is written and the thing created.
ServiceAddInstanceEager(id, installationId, fail) ==
    LET failed == IF id \in DOMAIN dbInstances THEN "AddInstance" ELSE fail
        things == << ThingIdOf(id) >>
        reg == RegisterInstances(<< Instance(id, installationId, things) >>)
    IN
    /\ nCalls < MaxCalls
    /\ dbInstances' =
          IF failed = "AddInstance" THEN dbInstances
          ELSE IF failed = "none"
          THEN MapPut(dbInstances, id, Row(installationId, things))
          ELSE MapPut(dbInstances, id, Row(installationId, << >>))
    /\ ProviderBecomes(reg.p)
    /\ remInstance' = [remInstance EXCEPT ![id] = "none"]
    /\ RegistryCalled
    /\ IF failed = "none"
       THEN Served("AddInstance", id, "registered", reg.err, "", "")
       ELSE Served("AddInstance", id, "", "", "failed to add instance", "")
    /\ UNCHANGED << chanVars, clientVars, pollVars, actVars, dbInstallations,
                    emitted, remInstallation >>
    /\ httpResponse' = AddAnswer(lastCall'.err)
    /\ UNCHANGED relayed
    /\ UNCHANGED ctxDone

\* AddInstance: the row is written, the thing of the one template is created
\* and its id stored, then the instance is registered.
ServiceAddInstanceCall(id, installationId, fail) ==
    LET failed == IF id \in DOMAIN dbInstances THEN "AddInstance" ELSE fail
        things == << ThingIdOf(id) >>
        reg == RegisterInstances(<< Instance(id, installationId, things) >>)
    IN
    /\ dbInstances' =
          IF failed = "AddInstance" THEN dbInstances
          ELSE IF failed = "none"
          THEN MapPut(dbInstances, id, Row(installationId, things))
          ELSE MapPut(dbInstances, id, Row(installationId, << >>))
    /\ IF failed = "none"
       THEN /\ ProviderBecomes(reg.p)
            /\ remInstance' = [remInstance EXCEPT ![id] = "none"]
            /\ RegistryCalled
            /\ Served("AddInstance", id, "registered", reg.err, "", "")
       ELSE /\ UNCHANGED << provVars, remInstance, updQuiet, updRun >>
            /\ Served("AddInstance", id, "", "", "failed to add instance", "")
    /\ UNCHANGED << chanVars, clientVars, pollVars, actVars, dbInstallations,
                    emitted, remInstallation >>
    /\ httpResponse' = AddAnswer(lastCall'.err)
    /\ UNCHANGED relayed
    /\ UNCHANGED ctxDone

\* The instantiation callback, while the platform has calls left to send.
ServiceAddInstance(id, installationId, fail) ==
    /\ nCalls < MaxCalls
    /\ ServiceAddInstanceCall(id, installationId, fail)

\* RemoveInstance: a provider error is logged, then the row is deleted.
ServiceRemoveInstanceCall(id, dbFail) ==
    LET rem == RemoveInstance(id) IN
    /\ ProviderBecomes(rem.p)
    /\ dbInstances' = IF dbFail THEN dbInstances ELSE MapDel(dbInstances, id)
    /\ remInstance' =
          IF rem.err = "" THEN [remInstance EXCEPT ![id] = "staged"]
          ELSE remInstance
    /\ RegistryCalled
    /\ Served("RemoveInstance", id, "", rem.err,
              IF dbFail THEN "failed to remove instance" ELSE "", "")
    /\ UNCHANGED << chanVars, clientVars, pollVars, actVars, dbInstallations,
                    emitted, remInstallation >>
    /\ httpResponse' = RemoveAnswer(lastCall'.err)
    /\ UNCHANGED relayed
    /\ UNCHANGED ctxDone

\* The instance removal callback, while the platform has calls left to send.
ServiceRemoveInstance(id, dbFail) ==
    /\ nCalls < MaxCalls
    /\ ServiceRemoveInstanceCall(id, dbFail)

\* The action request of call number n; the platform issues the request id.
ActionRequest(n, thingId, actionId) ==
    [ID |-> n, ThingID |-> thingId, ActionID |-> actionId,
     Parameters |-> [keyword |-> "cats"]]

\* PerformAction: the instance of the thing is looked up and the request is
\* handed to the provider, whose send blocks while the action channel is full.
ServicePerformAction(thingId, actionId) ==
    LET found == InstancesByThingId(dbInstances, thingId)
        id == CHOOSE i \in found : TRUE
        instance == Instance(id, dbInstances[id].InstallationID, dbInstances[id].things)
        request == ActionRequest(nCalls + 1, thingId, actionId)
        res == RequestAction(instance, request)
    IN
    /\ IF found = {}
       THEN /\ UNCHANGED << actionChannel, emitted >>
            /\ Served("PerformAction", thingId, actionId, "",
                      "thing ID was not found at connector", ActionRequestStatusFailed)
       ELSE /\ Len(actionChannel) < actionChannelBufferSize
            /\ actionChannel' = res.actionChannel
            /\ emitted' = IF res.status = ActionRequestStatusPending
                          THEN MapPut(emitted, request.ID, 0) ELSE emitted
            /\ Served("RequestAction", thingId, actionId, "", res.err, res.status)
    /\ UNCHANGED << provVars, updateChannel, clientVars, pollVars, actVars,
                    dbVars, remInstallation, remInstance, updQuiet >>
    /\ httpResponse' = PerformActionAnswer(
          PerformActionResult(found # {}, lastCall'.status,
                              IF found = {} THEN "" ELSE lastCall'.err),
          request.ID)
    /\ UNCHANGED relayed
    /\ UNCHANGED updRun
    /\ UNCHANGED ctxDone

\* The action callback, while the platform has calls left to send.
PerformAction(thingId, actionId) ==
    /\ nCalls < MaxCalls
    /\ ServicePerformAction(thingId, actionId)

\* ------------------------------------------------ GiphyProvider: the client
\* Lock() that never waits.
LockNeverWaits == TRUE

\* clientLock.Lock() returns only when no goroutine holds the mutex.
LockAcquirable == clientLock = ""

\* setApiKey: the key of the installation, or the error it returns.
setApiKey(installationId) ==
    IF installationId \notin DOMAIN Installations
    THEN [err |-> "installation not registered", key |-> ""]
    ELSE LET c == GetConfig(Installations[installationId], "giphy_api_key") IN
         IF ~c.ok THEN [err |-> "could not find api key", key |-> ""]
         ELSE [err |-> "", key |-> c.Value]

PropertyUpdateEvent(instanceId, thingId, componentId, propertyId, value) ==
    [ThingId |-> thingId, InstanceId |-> instanceId, ComponentId |-> componentId,
     PropertyId |-> propertyId, Value |-> value]

ActionEvent(instanceId, requestId, status, error) ==
    [InstanceId |-> instanceId, RequestId |-> requestId,
     Response |-> [Status |-> status, Error |-> error]]

\* UpdateEvent{ActionEvent, PropertyUpdateEvent}: a nil pointer is << >>.
UpdateEvent(actionEvent, propertyUpdateEvent) ==
    [ActionEvent |-> actionEvent, PropertyUpdateEvent |-> propertyUpdateEvent]

\* ------------------------------------ GiphyProvider.periodicUpdate goroutine
Advance(phase, from, to) == [id \in DOMAIN phase |->
                                IF phase[id] = from THEN to ELSE phase[id]]

\* case <-ticker.C: the cycle starts with h.Update().
PollTick ==
    /\ pollPC = "ticker"
    /\ pollPC' = "RemoveInstances"
    /\ updQuiet' = TRUE
    /\ remInstallation' = Advance(remInstallation, "staged", "applying")
    /\ remInstance' = Advance(remInstance, "staged", "applying")
    /\ UNCHANGED << provVars, chanVars, clientVars, pollRange, pollIdx, pollKey,
                    pollGif, actVars, dbVars, nCalls, lastCall, emitted >>
    /\ UNCHANGED relayVars
    /\ UNCHANGED ctxDone

PollStep(from, to) ==
    /\ pollPC = from
    /\ pollPC' = to
    /\ UNCHANGED << chanVars, clientVars, pollRange, pollIdx, pollKey, pollGif,
                    actVars, dbVars, nCalls, lastCall, emitted, updQuiet >>
    /\ UNCHANGED << relayed, httpResponse >>
    /\ UNCHANGED ctxDone

\* RemoveInstances: the loop, then p.instancesToRemove = nil.
PollRemoveInstances ==
    /\ PollStep("RemoveInstances", "clearInstancesToRemove")
    /\ Instances' = RemoveInstancesLoop(Instances, instancesToRemove, 1)
    /\ UNCHANGED << Installations, newInstances, instancesToRemove,
                    newInstallations, installationsToRemove,
                    remInstallation, remInstance >>
    /\ UNCHANGED updRun

PollClearInstancesToRemove ==
    /\ PollStep("clearInstancesToRemove", "AddNewInstances")
    /\ instancesToRemove' = << >>
    /\ UNCHANGED << Installations, Instances, newInstances, newInstallations,
                    installationsToRemove, remInstallation, remInstance >>
    /\ UNCHANGED updRun

\* AddNewInstances: the append, then p.newInstances = nil.
PollAddNewInstances ==
    /\ PollStep("AddNewInstances", "clearNewInstances")
    /\ Instances' = Instances \o newInstances
    /\ UNCHANGED << Installations, newInstances, instancesToRemove,
                    newInstallations, installationsToRemove,
                    remInstallation, remInstance >>
    /\ UNCHANGED updRun

\* AddNewInstances without p.newInstances = nil.
PollKeepNewInstances ==
    /\ PollStep("clearNewInstances", "RemoveInstallations")
    /\ UNCHANGED << provVars, remInstallation, remInstance, updRun >>

PollClearNewInstances ==
    /\ PollStep("clearNewInstances", "RemoveInstallations")
    /\ newInstances' = << >>
    /\ UNCHANGED << Installations, Instances, instancesToRemove, newInstallations,
                    installationsToRemove, remInstallation, remInstance >>
    /\ UNCHANGED updRun

\* RemoveInstallations: the loop, then p.installationsToRemove = nil.
PollRemoveInstallations ==
    /\ PollStep("RemoveInstallations", "clearInstallationsToRemove")
    /\ Installations' = RemoveInstallationsLoop(Installations, installationsToRemove, 1)
    /\ UNCHANGED << Instances, newInstances, instancesToRemove, newInstallations,
                    installationsToRemove, remInstallation, remInstance >>
    /\ UNCHANGED updRun

PollClearInstallationsToRemove ==
    /\ PollStep("clearInstallationsToRemove", "AddNewInstallations")
    /\ installationsToRemove' = << >>
    /\ UNCHANGED << Installations, Instances, newInstances, instancesToRemove,
                    newInstallations, remInstallation, remInstance >>
    /\ UNCHANGED updRun

\* AddNewInstallations: the loop only; p.newInstallations is left as it is.
\* Update returns here.
PollAddNewInstallations ==
    /\ PollStep("AddNewInstallations", "range")
    /\ Installations' = AddNewInstallationsLoop(Installations, newInstallations, 1)
    /\ remInstallation' = Advance(remInstallation, "applying", "applied")
    /\ remInstance' = Advance(remInstance, "applying", "applied")
    /\ UNCHANGED << Instances, newInstances, instancesToRemove, newInstallations,
                    installationsToRemove >>
    /\ updRun' = IF ~updQuiet THEN "none"
                 ELSE IF updRun = "none" THEN "once" ELSE "twice"

\* for _, instance := range h.Instances: the slice is evaluated once.
PollRange ==
    /\ pollPC = "range"
    /\ pollPC' = "body"
    /\ pollRange' = Instances
    /\ pollIdx' = 1
    /\ UNCHANGED << provVars, chanVars, clientVars, pollKey, pollGif, actVars,
                    dbVars, ghostVars >>
    /\ UNCHANGED relayVars
    /\ UNCHANGED ctxDone

\* The loop head and the check of the thing mapping.
PollBody ==
    /\ pollPC = "body"
    /\ IF pollIdx > Len(pollRange)
       THEN pollPC' = "ticker" /\ pollRange' = << >> /\ pollIdx' = 0
       ELSE IF Len(pollRange[pollIdx].ThingMapping) <= 0
       THEN pollPC' = "body" /\ pollIdx' = pollIdx + 1 /\ UNCHANGED pollRange
       ELSE pollPC' = "getRandomGif" /\ UNCHANGED << pollRange, pollIdx >>
    /\ UNCHANGED << provVars, chanVars, clientVars, pollKey, pollGif, actVars,
                    dbVars, ghostVars >>
    /\ UNCHANGED relayVars
    /\ UNCHANGED ctxDone

\* getRandomGif whose error ends the cycle instead of skipping the instance.
PollSetApiKeyAbort ==
    LET res == setApiKey(pollRange[pollIdx].InstallationID) IN
    /\ pollPC = "getRandomGif"
    /\ LockAcquirable
    /\ IF res.err # ""
       THEN /\ pollPC' = "ticker"
            /\ pollIdx' = 0
            /\ pollRange' = << >>
            /\ clientLock' = ""
            /\ UNCHANGED << APIKey, pollKey >>
       ELSE /\ pollPC' = "Random"
            /\ clientLock' = "poll"
            /\ APIKey' = res.key
            /\ pollKey' = res.key
            /\ UNCHANGED << pollIdx, pollRange >>
    /\ UNCHANGED << provVars, chanVars, pollGif, actVars, dbVars, ghostVars >>
    /\ UNCHANGED relayVars
    /\ UNCHANGED ctxDone

\* getRandomGif: Lock, setApiKey; an error unlocks and skips the instance.
PollSetApiKey ==
    LET res == setApiKey(pollRange[pollIdx].InstallationID) IN
    /\ pollPC = "getRandomGif"
    /\ LockAcquirable
    /\ IF res.err # ""
       THEN /\ pollPC' = "body"
            /\ pollIdx' = pollIdx + 1
            /\ clientLock' = ""
            /\ UNCHANGED << APIKey, pollKey >>
       ELSE /\ pollPC' = "Random"
            /\ clientLock' = "poll"
            /\ APIKey' = res.key
            /\ pollKey' = res.key
            /\ UNCHANGED pollIdx
    /\ UNCHANGED << provVars, chanVars, pollRange, pollGif, actVars, dbVars,
                    ghostVars >>
    /\ UNCHANGED relayVars
    /\ UNCHANGED ctxDone

RandomOutcomes == {"url", "error"}

\* getRandomGif whose Unlock is left to the caller after the send: a fetched
\* URL is returned with the lock held.
PollRandomHolding(outcome) ==
    /\ pollPC = "Random"
    /\ IF outcome = "error"
       THEN /\ pollPC' = "body" /\ pollIdx' = pollIdx + 1 /\ pollGif' = ""
            /\ clientLock' = ""
       ELSE /\ pollPC' = "UpdateEvent" /\ pollGif' = "randomUrl"
            /\ UNCHANGED << pollIdx, clientLock >>
    /\ pollKey' = ""
    /\ UNCHANGED << provVars, chanVars, APIKey, pollRange, actVars, dbVars,
                    ghostVars >>
    /\ UNCHANGED relayVars
    /\ UNCHANGED ctxDone

\* giphyClient.Random, then the deferred Unlock.
PollRandom(outcome) ==
    /\ pollPC = "Random"
    /\ clientLock' = ""
    /\ IF outcome = "error"
       THEN pollPC' = "body" /\ pollIdx' = pollIdx + 1 /\ pollGif' = ""
       ELSE pollPC' = "UpdateEvent" /\ pollGif' = "randomUrl" /\ UNCHANGED pollIdx
    /\ pollKey' = ""
    /\ UNCHANGED << provVars, chanVars, APIKey, pollRange, actVars, dbVars,
                    ghostVars >>
    /\ UNCHANGED relayVars
    /\ UNCHANGED ctxDone

\* h.UpdateEvent(update): the send blocks while the channel is full.
PollUpdateEvent ==
    LET instance == pollRange[pollIdx] IN
    /\ pollPC = "UpdateEvent"
    /\ Len(updateChannel) < updateChannelBufferSize
    /\ updateChannel' = Append(updateChannel,
          UpdateEvent(<< >>,
                      << PropertyUpdateEvent(instance.ID, instance.ThingMapping[1],
                                             RandomComponentId, RandomPropertyId,
                                             pollGif) >>))
    /\ pollPC' = "body"
    /\ pollIdx' = pollIdx + 1
    /\ pollGif' = ""
    /\ UNCHANGED << provVars, actionChannel, clientVars, pollRange, pollKey,
                    actVars, dbVars, ghostVars >>
    /\ UNCHANGED relayVars
    /\ UNCHANGED ctxDone

\* The context is cancelled. A loop blocked in its select (no tick waiting)
\* is woken on ctx.Done(); a loop that has a tick waiting and has not yet
\* evaluated the select finds both cases ready.
Cancel ==
    /\ ~ctxDone
    /\ ctxDone' = TRUE
    /\ IF pollPC = "ticker"
       THEN pollPC' \in {"ticker", "ctx.Done"}
       ELSE UNCHANGED pollPC
    /\ UNCHANGED << provVars, chanVars, clientVars, pollRange, pollIdx, pollKey,
                    pollGif, actVars, dbVars, ghostVars, relayVars >>

\* A select without the ctx.Done() case: the loop goes on with a cycle.
PollIgnoreDone ==
    /\ ctxDone
    /\ pollPC \in {"ticker", "ctx.Done"}
    /\ pollPC' = "RemoveInstances"
    /\ UNCHANGED << provVars, chanVars, clientVars, pollRange, pollIdx, pollKey,
                    pollGif, actVars, dbVars, ghostVars, relayVars, ctxDone >>

\* case <-ctx.Done(): ticker.Stop() and return. With a tick waiting as well
\* the select takes either case.
PollDone ==
    /\ ctxDone
    /\ pollPC \in {"ticker", "ctx.Done"}
    /\ pollPC' = "stopped"
    /\ UNCHANGED << provVars, chanVars, clientVars, pollRange, pollIdx, pollKey,
                    pollGif, actVars, dbVars, ghostVars, relayVars, ctxDone >>

\* ------------------------------------- GiphyProvider.actionHandler goroutine
\* A failed action event that still carries a property update.
FailedUpdateWithProperty(action, error) ==
    UpdateEvent(<< ActionEvent(action.Instance.ID, action.ID,
                               ActionRequestStatusFailed, error) >>,
                << PropertyUpdateEvent(action.Instance.ID, action.ThingID,
                                       SearchComponentId, SearchPropertyId, "") >>)

\* An action event left at Pending for an action that failed.
PendingUpdate(action, error) ==
    UpdateEvent(<< ActionEvent(action.Instance.ID, action.ID,
                               ActionRequestStatusPending, error) >>, << >>)

FailedUpdate(action, error) ==
    UpdateEvent(<< ActionEvent(action.Instance.ID, action.ID,
                               ActionRequestStatusFailed, error) >>, << >>)

\* A switch on ActionID with no default case: other actions are dropped.
ActReceiveNoDefault ==
    LET action == Head(actionChannel) IN
    /\ actPC = "receive"
    /\ Len(actionChannel) > 0
    /\ actionChannel' = Tail(actionChannel)
    /\ IF action.ActionID = "search"
       THEN actPC' = "getSearchResult" /\ pendingAction' = << action >>
       ELSE actPC' = "receive" /\ pendingAction' = << >>
    /\ UNCHANGED << provVars, updateChannel, clientVars, pollVars, actKey,
                    actUpdate, dbVars, ghostVars >>
    /\ UNCHANGED relayVars
    /\ UNCHANGED ctxDone

\* A handler that takes the action queued last.
ActReceiveNewestFirst ==
    LET action == actionChannel[Len(actionChannel)] IN
    /\ actPC = "receive"
    /\ Len(actionChannel) > 0
    /\ actionChannel' = SubSeq(actionChannel, 1, Len(actionChannel) - 1)
    /\ pendingAction' = << action >>
    /\ IF action.ActionID = "search"
       THEN actPC' = "getSearchResult" /\ UNCHANGED actUpdate
       ELSE /\ actPC' = "UpdateEvent"
            /\ actUpdate' = << FailedUpdate(action, "Action not supported") >>
    /\ UNCHANGED << provVars, updateChannel, clientVars, pollVars, actKey,
                    dbVars, ghostVars >>
    /\ UNCHANGED relayVars
    /\ UNCHANGED ctxDone

\* for pendingAction := range h.ActionChannel(), and the switch on ActionID.
ActReceive ==
    LET action == Head(actionChannel) IN
    /\ actPC = "receive"
    /\ Len(actionChannel) > 0
    /\ actionChannel' = Tail(actionChannel)
    /\ pendingAction' = << action >>
    /\ IF action.ActionID = "search"
       THEN actPC' = "getSearchResult" /\ UNCHANGED actUpdate
       ELSE /\ actPC' = "UpdateEvent"
            /\ actUpdate' = << FailedUpdate(action, "Action not supported") >>
    /\ UNCHANGED << provVars, updateChannel, clientVars, pollVars, actKey,
                    dbVars, ghostVars >>
    /\ UNCHANGED relayVars
    /\ UNCHANGED ctxDone

\* getSearchResult: Lock, setApiKey; an error unlocks and fails the action.
ActSetApiKey ==
    LET action == pendingAction[1]
        res == setApiKey(action.Instance.InstallationID)
    IN
    /\ actPC = "getSearchResult"
    /\ LockAcquirable
    /\ IF res.err # ""
       THEN /\ actPC' = "UpdateEvent"
            /\ actUpdate' = << FailedUpdate(action, res.err) >>
            /\ clientLock' = ""
            /\ UNCHANGED << APIKey, actKey >>
       ELSE /\ actPC' = "Search"
            /\ clientLock' = "act"
            /\ APIKey' = res.key
            /\ actKey' = res.key
            /\ UNCHANGED actUpdate
    /\ UNCHANGED << provVars, chanVars, pollVars, pendingAction, dbVars,
                    ghostVars >>
    /\ UNCHANGED relayVars
    /\ UNCHANGED ctxDone

SearchOutcomes == {"url", "error", "empty"}

\* getSearchResult without the test of len(result.Data): an empty result set
\* completes the action with an empty URL.
ActSearchUnchecked(outcome) ==
    LET action == pendingAction[1] IN
    /\ actPC = "Search"
    /\ clientLock' = ""
    /\ actKey' = ""
    /\ IF outcome = "error"
       THEN /\ actPC' = "UpdateEvent"
            /\ actUpdate' = << FailedUpdate(action, "search failed") >>
       ELSE IF Len(action.Instance.ThingMapping) = 0
       THEN actPC' = "panic" /\ UNCHANGED actUpdate
       ELSE /\ actPC' = "UpdateEvent"
            /\ actUpdate' = <<
                 UpdateEvent(<< ActionEvent(action.Instance.ID, action.ID,
                                            ActionRequestStatusCompleted, "") >>,
                             << PropertyUpdateEvent(action.Instance.ID,
                                                    action.Instance.ThingMapping[1],
                                                    SearchComponentId,
                                                    SearchPropertyId,
                                                    IF outcome = "empty" THEN ""
                                                    ELSE "searchUrl") >>) >>
    /\ UNCHANGED << provVars, chanVars, APIKey, pollVars, pendingAction, dbVars,
                    ghostVars >>
    /\ UNCHANGED relayVars
    /\ UNCHANGED ctxDone

\* getSearchResult whose deferred Unlock is missing: the search returns with
\* the lock held.
ActSearchHolding(outcome) ==
    LET action == pendingAction[1] IN
    /\ actPC = "Search"
    /\ actKey' = ""
    /\ IF outcome = "error"
       THEN /\ actPC' = "UpdateEvent"
            /\ actUpdate' = << FailedUpdate(action, "search failed") >>
       ELSE IF outcome = "empty"
       THEN /\ actPC' = "UpdateEvent"
            /\ actUpdate' = << FailedUpdate(action, "no search result found") >>
       ELSE IF Len(action.Instance.ThingMapping) = 0
       THEN actPC' = "panic" /\ UNCHANGED actUpdate
       ELSE /\ actPC' = "UpdateEvent"
            /\ actUpdate' = <<
                 UpdateEvent(<< ActionEvent(action.Instance.ID, action.ID,
                                            ActionRequestStatusCompleted, "") >>,
                             << PropertyUpdateEvent(action.Instance.ID,
                                                    action.Instance.ThingMapping[1],
                                                    SearchComponentId,
                                                    SearchPropertyId,
                                                    "searchUrl") >>) >>
    /\ UNCHANGED << provVars, chanVars, clientVars, pollVars, pendingAction, dbVars,
                    ghostVars >>
    /\ UNCHANGED relayVars
    /\ UNCHANGED ctxDone

\* giphyClient.Search with Limit 1, the deferred Unlock, and the update built
\* from the result; ThingMapping[0] of an instance with no thing panics.
ActSearch(outcome) ==
    LET action == pendingAction[1] IN
    /\ actPC = "Search"
    /\ clientLock' = ""
    /\ actKey' = ""
    /\ IF outcome = "error"
       THEN /\ actPC' = "UpdateEvent"
            /\ actUpdate' = << FailedUpdate(action, "search failed") >>
       ELSE IF outcome = "empty"
       THEN /\ actPC' = "UpdateEvent"
            /\ actUpdate' = << FailedUpdate(action, "no search result found") >>
       ELSE IF Len(action.Instance.ThingMapping) = 0
       THEN actPC' = "panic" /\ UNCHANGED actUpdate
       ELSE /\ actPC' = "UpdateEvent"
            /\ actUpdate' = <<
                 UpdateEvent(<< ActionEvent(action.Instance.ID, action.ID,
                                            ActionRequestStatusCompleted, "") >>,
                             << PropertyUpdateEvent(action.Instance.ID,
                                                    action.Instance.ThingMapping[1],
                                                    SearchComponentId,
                                                    SearchPropertyId,
                                                    "searchUrl") >>) >>
    /\ UNCHANGED << provVars, chanVars, APIKey, pollVars, pendingAction, dbVars,
                    ghostVars >>
    /\ UNCHANGED relayVars
    /\ UNCHANGED ctxDone

\* A send that gives up when the channel is full: the event is dropped.
ActUpdateEventDropping ==
    /\ actPC = "UpdateEvent"
    /\ updateChannel' = IF Len(updateChannel) < updateChannelBufferSize
                        THEN Append(updateChannel, actUpdate[1])
                        ELSE updateChannel
    /\ emitted' = IF actUpdate[1].ActionEvent[1].Response.Status
                         \in {ActionRequestStatusCompleted, ActionRequestStatusFailed}
                  THEN [emitted EXCEPT ![pendingAction[1].ID] = @ + 1]
                  ELSE emitted
    /\ actPC' = "receive"
    /\ pendingAction' = << >>
    /\ actUpdate' = << >>
    /\ UNCHANGED << provVars, actionChannel, clientVars, pollVars, actKey, dbVars,
                    nCalls, lastCall, remInstallation, remInstance, updQuiet >>
    /\ UNCHANGED relayVars
    /\ UNCHANGED ctxDone

\* h.UpdateEvent(update): the send blocks while the channel is full.
ActUpdateEvent ==
    /\ actPC = "UpdateEvent"
    /\ Len(updateChannel) < updateChannelBufferSize
    /\ updateChannel' = Append(updateChannel, actUpdate[1])
    /\ emitted' = IF actUpdate[1].ActionEvent[1].Response.Status
                         \in {ActionRequestStatusCompleted, ActionRequestStatusFailed}
                  THEN [emitted EXCEPT ![pendingAction[1].ID] = @ + 1]
                  ELSE emitted
    /\ actPC' = "receive"
    /\ pendingAction' = << >>
    /\ actUpdate' = << >>
    /\ UNCHANGED << provVars, actionChannel, clientVars, pollVars, actKey, dbVars,
                    nCalls, lastCall, remInstallation, remInstance, updQuiet >>
    /\ UNCHANGED relayVars
    /\ UNCHANGED ctxDone

\* ---------------------------------- DefaultConnectorService.EventHandler
\* for update := range s.provider.UpdateChannel(): the event is consumed.
\* What a call of the platform's API can return.
PlatformOutcomes == {"", "platform unavailable"}

\* A call of the connctd client with its arguments and what it returned.
PlatformCall(call, instanceId, thingId, requestId, value, status, error, result) ==
    [call |-> call, InstanceId |-> instanceId, ThingId |-> thingId,
     RequestId |-> requestId, Value |-> value, Status |-> status,
     Error |-> error, result |-> result]

\* UpdateProperty: the instance is read for its token, then the platform is
\* called; without the instance no call is made.
UpdateProperty(db, propertyUpdate, outcome) ==
    IF propertyUpdate.InstanceId \notin DOMAIN db
    THEN [err |-> "failed to retrieve instance", calls |-> << >>]
    ELSE [err |-> outcome,
          calls |-> << PlatformCall("UpdateThingPropertyValue",
                          propertyUpdate.InstanceId, propertyUpdate.ThingId, 0,
                          propertyUpdate.Value, "", "", outcome) >>]

\* UpdateActionStatus: likewise, with the status and error of the response.
UpdateActionStatus(db, instanceId, actionRequestId, actionResponse, outcome) ==
    IF instanceId \notin DOMAIN db
    THEN [err |-> "failed to retrieve instance", calls |-> << >>]
    ELSE [err |-> outcome,
          calls |-> << PlatformCall("UpdateActionStatus", instanceId, << >>,
                          actionRequestId, "", actionResponse.Status,
                          actionResponse.Error, outcome) >>]

\* fmt.Sprintf("failed to update property %v", err)
FailedToUpdateProperty(err) ==
    IF err = "platform unavailable"
    THEN "failed to update property platform unavailable"
    ELSE "failed to update property failed to retrieve instance"

\* The relay reporting the status before it updates the property.
RelayStatusFirst(update, db, propertyOutcome, statusOutcome) ==
    LET stat == IF update.ActionEvent = << >> THEN [err |-> "", calls |-> << >>]
                ELSE UpdateActionStatus(db, update.ActionEvent[1].InstanceId,
                        update.ActionEvent[1].RequestId,
                        update.ActionEvent[1].Response, statusOutcome)
        prop == IF update.PropertyUpdateEvent = << >>
                THEN [err |-> "", calls |-> << >>]
                ELSE UpdateProperty(db, update.PropertyUpdateEvent[1], propertyOutcome)
    IN stat.calls \o prop.calls

\* The relay reporting the status of the event whatever the property update
\* returned.
RelayEventStatus(update, db, propertyOutcome, statusOutcome) ==
    LET prop == IF update.PropertyUpdateEvent = << >>
                THEN [err |-> "", calls |-> << >>]
                ELSE UpdateProperty(db, update.PropertyUpdateEvent[1], propertyOutcome)
        stat == IF update.ActionEvent = << >> THEN [err |-> "", calls |-> << >>]
                ELSE UpdateActionStatus(db, update.ActionEvent[1].InstanceId,
                        update.ActionEvent[1].RequestId,
                        update.ActionEvent[1].Response, statusOutcome)
    IN prop.calls \o stat.calls

\* One iteration of the loop over the update channel: the calls of the
\* platform it makes, in order. The property is updated first; if that
\* failed the response of the action event is overwritten before the status
\* is reported.
Relay(update, db, propertyOutcome, statusOutcome) ==
    LET prop == IF update.PropertyUpdateEvent = << >>
                THEN [err |-> "", calls |-> << >>]
                ELSE UpdateProperty(db, update.PropertyUpdateEvent[1], propertyOutcome)
        response == IF prop.err # ""
                    THEN [Status |-> ActionRequestStatusFailed,
                          Error |-> FailedToUpdateProperty(prop.err)]
                    ELSE update.ActionEvent[1].Response
        stat == IF update.ActionEvent = << >> THEN [err |-> "", calls |-> << >>]
                ELSE UpdateActionStatus(db, update.ActionEvent[1].InstanceId,
                        update.ActionEvent[1].RequestId, response, statusOutcome)
    IN prop.calls \o stat.calls

\* The goroutine of EventHandler receives the next update and relays it. The
\* relay of an update with an action event is kept for inspection.
EventHandler ==
    /\ Len(updateChannel) > 0
    /\ updateChannel' = Tail(updateChannel)
    /\ \E propertyOutcome \in PlatformOutcomes, statusOutcome \in PlatformOutcomes :
          LET update == Head(updateChannel) IN
          relayed' = IF update.ActionEvent = << >> THEN relayed
                     ELSE [update |-> << update >>,
                           calls |-> Relay(update, dbInstances, propertyOutcome,
                                           statusOutcome)]
    /\ UNCHANGED << provVars, actionChannel, clientVars, pollVars, actVars,
                    dbVars, ghostVars, updRun, httpResponse >>
    /\ UNCHANGED ctxDone

\* ------------------------------------------- signed callback requests
\* The platform's key pair: the connector holds the public half.
PublicKey == "connctd"

\* ed25519: a signature is the message bound to the signing key, and it
\* verifies under the key of the same pair over the same message only.
Sign(privateKey, message) == << [key |-> privateKey, message |-> message] >>

Verify(publicKey, message, signature) == signature = Sign(publicKey, message)

\* base64: a header value is well formed and stands for bytes, or is not.
EncodeToString(bytes) == [wellFormed |-> TRUE, bytes |-> bytes]

DecodeString(value) ==
    [err |-> ~value.wellFormed,
     bytes |-> IF value.wellFormed THEN value.bytes ELSE << >>]

\* A payload that does not require the Date header.
SignablePayloadUndated(method, url, date, body) ==
    [err |-> "", payload |-> << method, url, date, body >>]

\* SignablePayload: method, url, the Date header, body; no payload without
\* the Date header.
SignablePayload(method, url, date, body) ==
    IF date = "" THEN [err |-> "MISSING_HEADER", payload |-> << >>]
    ELSE [err |-> "", payload |-> << method, url, date, body >>]

\* The Signature header a request arrives with: none (Header.Get gives the
\* empty string, the encoding of no bytes), a value that is not base64, a
\* signature by another key, the platform's signature of another request,
\* or the platform's signature of this request.
SignatureKinds == {"absent", "malformed", "forged", "replayed", "signed"}

SignatureHeader(kind, method, url, date, body) ==
    CASE kind = "absent" -> EncodeToString(<< >>)
      [] kind = "malformed" -> [wellFormed |-> FALSE, bytes |-> << >>]
      [] kind = "forged" ->
            EncodeToString(Sign("mallory", << method, url, date, body >>))
      [] kind = "replayed" ->
            EncodeToString(Sign(PublicKey,
                << method, url, "Tue, 06 Oct 2020 10:00:00 GMT", body >>))
      [] kind = "signed" ->
            EncodeToString(Sign(PublicKey, << method, url, date, body >>))

Dates == {"", "Wed, 07 Oct 2020 10:00:00 GMT"}

\* What can be wrong with the body of a request.
BodyDefects == {"none", "unreadable", "contentType", "json"}

\* A request: a body is << >> (ContentLength 0) or one JSON document.
HttpRequest(method, url, content, kind, date, defect) ==
    LET body == IF content = << >> THEN << >>
                ELSE << [json |-> defect # "json", value |-> content[1]] >>
    IN [Method |-> method, URI |-> url, Date |-> date, Body |-> body,
        readable |-> defect # "unreadable",
        ContentType |-> IF defect = "contentType" THEN "text/plain"
                        ELSE "application/json",
        Signature |-> SignatureHeader(kind, method, url, date, body)]

\* The calls of the platform, by endpoint, before signature and headers.
InstallationCalls(ids, confs) ==
    {[method |-> "POST", url |-> << "installations" >>,
      content |-> << [ID |-> id, Configuration |-> conf] >>] :
        id \in ids, conf \in confs}
    \cup {[method |-> "DELETE", url |-> << "installations", id >>,
           content |-> << >>] : id \in ids}

InstanceCalls(ids, installationIds) ==
    {[method |-> "POST", url |-> << "instantiations" >>,
      content |-> << [ID |-> id, InstallationID |-> inst] >>] :
        id \in ids, inst \in installationIds}
    \cup {[method |-> "DELETE", url |-> << "instantiations", id >>,
           content |-> << >>] : id \in ids}

ActionCalls(ids, actionIds) ==
    {[method |-> "POST", url |-> << "actions" >>,
      content |-> << [ThingID |-> ThingIdOf(id), ActionID |-> actionId] >>] :
        id \in ids, actionId \in actionIds}

\* A call as the platform sends it: signed, dated, well-formed JSON.
Signed(call) ==
    HttpRequest(call.method, call.url, call.content, "signed",
                "Wed, 07 Oct 2020 10:00:00 GMT", "none")

RegistryRequests ==
    {Signed(call) : call \in InstallationCalls(InstallationIds, Configurations)
                          \cup InstanceCalls(InstanceIds, InstallationIds)}

ActionRequests == {Signed(call) : call \in ActionCalls(InstanceIds, ActionIds)}

\* One call of each endpoint in every other shape: any Signature header, with
\* or without the Date header, any defect of the body.
DefectiveRequests ==
    {HttpRequest(call.method, call.url, call.content, kind, date, defect) :
        call \in InstallationCalls({"a"}, {ConfigOf("k1")})
                    \cup InstanceCalls({"i1"}, {"a"})
                    \cup ActionCalls({"i1"}, {"search"}),
        kind \in SignatureKinds, date \in Dates, defect \in BodyDefects}
    \ (RegistryRequests \cup ActionRequests)

\* The validation without the verification of the signature.
ValidateSignatureUnverified(r) ==
    LET decodedSignature == DecodeString(r.Signature)
        signaturePayload == SignablePayload(r.Method, r.URI, r.Date, r.Body)
    IN IF decodedSignature.err THEN "BAD_SIGNATURE"
       ELSE IF Len(r.Body) # 0 /\ ~r.readable THEN "INVALID_BODY"
       ELSE signaturePayload.err

\* signatureValidationHandler.ServeHTTP up to the call of the wrapped
\* handler: the error written, or "" when the wrapped handler is called.
ValidateSignature(r) ==
    LET decodedSignature == DecodeString(r.Signature)
        signaturePayload == SignablePayload(r.Method, r.URI, r.Date, r.Body)
    IN IF decodedSignature.err THEN "BAD_SIGNATURE"
       ELSE IF Len(r.Body) # 0 /\ ~r.readable THEN "INVALID_BODY"
       ELSE IF signaturePayload.err # "" THEN signaturePayload.err
       ELSE IF Verify(PublicKey, signaturePayload.payload, decodedSignature.bytes)
       THEN ""
       ELSE "BAD_SIGNATURE"

\* decodeJSONBody: the body was read by the validation and is read again
\* from memory.
decodeJSONBody(r) ==
    IF r.ContentType # "application/json" THEN "BAD_CONTENT_TYPE"
    ELSE IF Len(r.Body) = 0 \/ ~r.Body[1].json THEN "INVALID_JSON_BODY"
    ELSE ""

\* The request is answered with the error by the layer `by`; nothing else
\* happens.
Rejected(by, err) ==
    /\ nCalls < MaxCalls
    /\ Served(by, "", "", "", err, "")
    /\ httpResponse' = writeError(err)
    /\ UNCHANGED << provVars, chanVars, clientVars, pollVars, actVars, dbVars,
                    emitted, remInstallation, remInstance, updQuiet, updRun,
                    relayed >>
    /\ UNCHANGED ctxDone

\* The handler of the route of r, called by the validation.
Route(r) ==
    IF r.Method = "POST"
    THEN IF decodeJSONBody(r) # ""
         THEN Rejected("decodeJSONBody", decodeJSONBody(r))
         ELSE LET req == r.Body[1].value IN
              IF r.URI = << "installations" >>
              THEN \E fail \in AddInstallationFailures :
                      ServiceAddInstallation(req.ID, req.Configuration, fail)
              ELSE IF r.URI = << "instantiations" >>
              THEN \E fail \in AddInstanceFailures :
                      ServiceAddInstance(req.ID, req.InstallationID, fail)
              ELSE PerformAction(req.ThingID, req.ActionID)
    ELSE IF r.URI[1] = "installations"
         THEN \E dbFail \in BOOLEAN : ServiceRemoveInstallation(r.URI[2], dbFail)
         ELSE \E dbFail \in BOOLEAN : ServiceRemoveInstance(r.URI[2], dbFail)

\* signatureValidationHandler.ServeHTTP.
ServeHTTP(r) ==
    IF ValidateSignature(r) # ""
    THEN Rejected("ServeHTTP", ValidateSignature(r))
    ELSE Route(r)

\* ------------------------------------------------------------------- Next
\* The callbacks that reach the registry (install, instantiate, remove).
RegistryCallback == \E r \in RegistryRequests : ServeHTTP(r)

\* The action callback.
ActionCallback == \E r \in ActionRequests : ServeHTTP(r)

\* Any other request to an endpoint.
DefectiveCallback == \E r \in DefectiveRequests : ServeHTTP(r)

Update ==
    \/ PollRemoveInstances
    \/ PollClearInstancesToRemove
    \/ PollAddNewInstances
    \/ PollClearNewInstances
    \/ PollRemoveInstallations
    \/ PollClearInstallationsToRemove
    \/ PollAddNewInstallations

periodicUpdate ==
    \/ PollTick
    \/ Update
    \/ PollRange
    \/ PollBody
    \/ PollSetApiKey
    \/ \E outcome \in RandomOutcomes : PollRandom(outcome)
    \/ PollUpdateEvent

actionHandler ==
    \/ ActReceive
    \/ ActSetApiKey
    \/ \E outcome \in SearchOutcomes : ActSearch(outcome)
    \/ ActUpdateEvent

\* The whole connector.
Next == RegistryCallback \/ ActionCallback \/ DefectiveCallback
           \/ periodicUpdate \/ actionHandler \/ EventHandler

Spec == Init /\ [][Next]_vars

\* The connector while the platform sends no action request.
NextRegistry == RegistryCallback \/ periodicUpdate \/ EventHandler

SpecRegistry == Init /\ [][NextRegistry]_vars

\* The connector while the platform sends action requests only.
NextActions == ActionCallback \/ periodicUpdate \/ actionHandler \/ EventHandler

SpecActions == Init /\ [][NextActions]_vars

\* The action handler is never starved: sync.Mutex hands the lock to a waiter
\* and a blocked channel send is served in arrival order; the polling loop's
\* requests return and the event handler keeps receiving.
SpecActionsFair ==
    /\ SpecActions
    /\ WF_vars(periodicUpdate)
    /\ SF_vars(actionHandler)
    /\ WF_vars(EventHandler)

\* The platform sends a burst of action requests for one thing, more than
\* the action channel holds; each is signed and well formed, so ServeHTTP
\* hands it to PerformAction. Meanwhile the event handler is held up in a
\* call of the platform and receives nothing.
ActionBurst ==
    /\ nCalls < MaxBurst
    /\ \E actionId \in BurstActionIds :
          ServicePerformAction(ThingIdOf("i1"), actionId)

NextBurst == ActionBurst \/ periodicUpdate \/ actionHandler

\* The database of a connector with one installation and one instance.
BurstDB ==
    [installations |-> [x \in {"a"} |-> ConfigOf("k1")],
     instances |-> [x \in {"i1"} |-> Row("a", << ThingIdOf("i1") >>)]]

InitBurst == InitWith(BurstDB)

SpecBurst == InitBurst /\ [][NextBurst]_vars

\* The platform removes instance i1 and instantiates it again under the same
\* id; no step of the database or of the platform fails.
InstanceRemoved == ServiceRemoveInstanceCall("i1", FALSE)

InstanceAddedAgain == ServiceAddInstanceCall("i1", "a", "none")

ReinstallCallback ==
    /\ nCalls < MaxReinstall
    /\ (InstanceRemoved \/ InstanceAddedAgain)

NextReinstall == ReinstallCallback \/ periodicUpdate \/ EventHandler

SpecReinstall == Init /\ [][NextReinstall]_vars

\* The platform removes installation a and installs it again under the same
\* id with any configuration; no step of the database fails.
InstallationRemoved == ServiceRemoveInstallationCall("a", FALSE)

InstallationAddedAgain ==
    \E conf \in Configurations : ServiceAddInstallationCall("a", conf, "none")

ReplaceCallback ==
    /\ nCalls < MaxReinstall
    /\ (InstallationRemoved \/ InstallationAddedAgain)

NextReplace == ReplaceCallback \/ periodicUpdate \/ EventHandler

SpecReplace == Init /\ [][NextReplace]_vars

\* The platform sends a few action requests for one thing while every
\* goroutine of the connector runs.
ActionSeries ==
    /\ nCalls < MaxOrdered
    /\ \E actionId \in BurstActionIds :
          ServicePerformAction(ThingIdOf("i1"), actionId)

NextOrdered == ActionSeries \/ periodicUpdate \/ actionHandler \/ EventHandler

SpecOrdered == InitBurst /\ [][NextOrdered]_vars

\* The burst of action requests while giphy answers every search with a
\* result, with the relay running. Every goroutine that can take a step
\* takes one in the end: the relay receives whenever the update channel holds
\* an event, and sync.Mutex hands the lock to a goroutine that waits for it.
SearchAnswered == ActSearch("url")

actionHandlerAnswered == ActReceive \/ ActSetApiKey \/ SearchAnswered \/ ActUpdateEvent

NextProgress == ActionBurst \/ periodicUpdate \/ actionHandlerAnswered \/ EventHandler

SpecProgress ==
    /\ InitBurst
    /\ [][NextProgress]_vars
    /\ SF_vars(periodicUpdate)
    /\ SF_vars(actionHandlerAnswered)
    /\ WF_vars(EventHandler)

\* The connector with action requests while the context of Run is cancelled
\* at some point.
NextShutdown == Cancel \/ ActionCallback \/ periodicUpdate \/ PollDone
                   \/ actionHandler \/ EventHandler

SpecShutdown == Init /\ [][NextShutdown]_vars

\* The goroutines keep running: the ticker keeps firing, sync.Mutex hands the
\* lock to a waiter, the event handler keeps receiving, and a select with
\* several ready cases picks one at random, so the ctx.Done() case is not
\* passed over for ever.
SpecShutdownFair ==
    /\ SpecShutdown
    /\ SF_vars(periodicUpdate)
    /\ SF_vars(PollDone)
    /\ SF_vars(actionHandler)
    /\ WF_vars(EventHandler)

\* ------------------------------- PerformAction over any provider's result
\* The errors a Provider's RequestAction can return with its status.
ProviderErrors == {"", "action not supported", "provider is shutting down"}

\* The service has looked up the instance of the thing and the provider has
\* returned (status, err) for the request numbered nCalls + 1.
InitPerformAction ==
    \E db \in InitialDBs, thingId \in {ThingIdOf(id) : id \in InstanceIds},
       actionId \in ActionIds, err \in ProviderErrors,
       status \in {ActionRequestStatusCompleted, ActionRequestStatusPending,
                   ActionRequestStatusFailed},
       n \in 0..MaxCalls :
        /\ InstancesByThingId(db.instances, thingId) # {}
        /\ dbInstallations = db.installations
        /\ dbInstances = db.instances
        /\ Installations = EmptyMap
        /\ Instances = << >>
        /\ newInstallations = GetInstallations(db.installations)
        /\ newInstances = GetInstances(db.instances)
        /\ instancesToRemove = << >>
        /\ installationsToRemove = << >>
        /\ actionChannel = << >>
        /\ updateChannel = << >>
        /\ APIKey = ""
        /\ clientLock = ""
        /\ pollPC = "ticker"
        /\ pollRange = << >>
        /\ pollIdx = 0
        /\ pollKey = ""
        /\ pollGif = ""
        /\ actPC = "receive"
        /\ pendingAction = << >>
        /\ actKey = ""
        /\ actUpdate = << >>
        /\ nCalls = n
        /\ lastCall = [op |-> "RequestAction", id |-> thingId, arg |-> actionId,
                       perr |-> "", err |-> err, status |-> status]
        /\ emitted = [r \in {} |-> 0]
        /\ remInstallation = [id \in InstallationIds |-> "none"]
        /\ remInstance = [id \in InstanceIds |-> "none"]
        /\ updRun = "none"
        /\ relayed = NoRelay
        /\ httpResponse = NoResponse
        /\ updQuiet = TRUE
        /\ ctxDone = FALSE

\* The rest of DefaultConnectorService.PerformAction and of the handler: the
\* provider's result becomes the answer to the request.
AnswerPerformAction ==
    /\ lastCall.op = "RequestAction"
    /\ httpResponse = NoResponse
    /\ nCalls' = nCalls + 1
    /\ httpResponse' = PerformActionAnswer(
          PerformActionResult(TRUE, lastCall.status, lastCall.err), nCalls + 1)
    /\ UNCHANGED << provVars, chanVars, clientVars, pollVars, actVars, dbVars,
                    lastCall, emitted, remInstallation, remInstance, updQuiet,
                    updRun, relayed >>
    /\ UNCHANGED ctxDone

SpecPerformAction == InitPerformAction /\ [][AnswerPerformAction]_vars

\* ------------------------------------------------------------ Properties
\* The step is the return of the service callback that calls op.
Called(op) == nCalls' = nCalls + 1 /\ lastCall'.op = op

Range(s) == {s[i] : i \in 1..Len(s)}

IterPCs == {"body", "getRandomGif", "Random", "UpdateEvent"}

\* The events the action handler has emitted or is about to emit.
ActionUpdates ==
    {e \in Range(updateChannel) \cup Range(actUpdate) : e.ActionEvent # << >>}

\* C1: in every interleaving of the polling loop and the action handler, an
\* external request (Random or Search) is issued while the actor holds the
\* client lock and the client's APIKey is the key of the installation that
\* owns the requesting instance.
C1_RequestUnderOwnersKey ==
    /\ pollPC = "Random" =>
          /\ clientLock = "poll"
          /\ APIKey = setApiKey(pollRange[pollIdx].InstallationID).key
          /\ APIKey = pollKey
    /\ actPC = "Search" =>
          /\ clientLock = "act"
          /\ APIKey = setApiKey(pendingAction[1].Instance.InstallationID).key
          /\ APIKey = actKey

\* The polling loop is inside its critical section while the action handler
\* waits for the lock on behalf of an installation with another key.
C1_Witness ==
    /\ pollPC = "Random"
    /\ actPC = "getSearchResult"
    /\ setApiKey(pendingAction[1].Instance.InstallationID).key \notin {"", APIKey}

\* C2: every action accepted by RequestAction eventually gets one event with
\* status Completed or Failed from the action handler, and never a second one.
C2_ExactlyOneTerminalStatus ==
    /\ [](\A r \in DOMAIN emitted : emitted[r] <= 1)
    /\ \A r \in 1..MaxCalls :
          (r \in DOMAIN emitted) ~> (r \in DOMAIN emitted /\ emitted[r] = 1)

\* An accepted action has got its terminal status and the handler is back at
\* the channel.
C2_Witness ==
    /\ actPC = "receive"
    /\ \E r \in DOMAIN emitted : emitted[r] = 1

\* C3: an action event with status Completed carries exactly one property
\* update, of the search component; one with status Failed carries none.
C3_CompletedPairedWithPropertyUpdate ==
    \A e \in ActionUpdates :
       /\ e.ActionEvent[1].Response.Status = ActionRequestStatusCompleted =>
             /\ Len(e.PropertyUpdateEvent) = 1
             /\ e.PropertyUpdateEvent[1].ComponentId = SearchComponentId
       /\ e.ActionEvent[1].Response.Status = ActionRequestStatusFailed =>
             e.PropertyUpdateEvent = << >>

\* A Completed event with its property update is in the update channel.
C3_Witness ==
    \E e \in Range(updateChannel) :
       /\ e.ActionEvent # << >>
       /\ e.ActionEvent[1].Response.Status = ActionRequestStatusCompleted
       /\ Len(e.PropertyUpdateEvent) = 1

C5_SearchQueuedPending ==
    [][(Called("RequestAction") /\ lastCall'.arg = "search") =>
          LET pa == actionChannel'[Len(actionChannel')] IN
          /\ lastCall'.status = ActionRequestStatusPending
          /\ lastCall'.err = ""
          /\ Len(actionChannel') = Len(actionChannel) + 1
          /\ SubSeq(actionChannel', 1, Len(actionChannel)) = actionChannel
          /\ pa.ActionID = "search"
          /\ pa.ThingID = lastCall'.id
          /\ pa.ID = nCalls'
          /\ pa.Instance.ID \in InstancesByThingId(dbInstances, lastCall'.id)
          /\ emitted'[pa.ID] = 0
          /\ actVars' = actVars
          /\ clientVars' = clientVars]_vars

\* The search request was answered Pending and is still queued while the
\* polling loop's external request is in progress under the client lock.
C5_Witness ==
    /\ lastCall.op = "RequestAction"
    /\ lastCall.arg = "search"
    /\ lastCall.status = ActionRequestStatusPending
    /\ Len(actionChannel) = 1
    /\ actionChannel[1].ID = nCalls
    /\ pollPC = "Random"

\* C6: a register call never errors and leaves the live collections as they
\* were; the live collections change only in a step of Update; the instances
\* the polling loop visits are the live instances of the cycle's Update, and
\* the staged instances become live in the next AddNewInstances.
C6_LiveChangesOnlyInUpdate ==
    [][/\ (Called("AddInstallation") \/ Called("AddInstance")) =>
             /\ Installations' = Installations
             /\ Instances' = Instances
             /\ lastCall'.perr = ""
       /\ (Installations' # Installations \/ Instances' # Instances) =>
             /\ pollPC \in UpdatePCs
             /\ pollPC' # pollPC
       /\ pollPC' \in IterPCs => pollRange' = Instances'
       /\ (pollPC = "AddNewInstances" /\ pollPC' = "clearNewInstances") =>
             Range(newInstances) \subseteq Range(Instances')]_vars

\* An instance was registered while the polling loop is iterating: it is
\* staged, not live, and not among the instances of the iteration.
C6_Witness ==
    /\ lastCall.op = "AddInstance"
    /\ lastCall.arg = "registered"
    /\ pollPC \in IterPCs
    /\ Len(pollRange) > 0
    /\ lastCall.id \in InstanceIdsOf(newInstances)
    /\ lastCall.id \notin InstanceIdsOf(Instances)
    /\ lastCall.id \notin InstanceIdsOf(pollRange)

\* C7 as stated: when Update returns after running with no registry call in
\* between, the four staging lists are empty.
C7_UpdateLeavesStagingEmpty ==
    [][(pollPC = "AddNewInstallations" /\ pollPC' = "range" /\ updQuiet) =>
          /\ newInstances' = << >>
          /\ instancesToRemove' = << >>
          /\ newInstallations' = << >>
          /\ installationsToRemove' = << >>]_vars

\* C8 as stated: an installation whose RemoveInstallation succeeded is absent
\* from the live installations once the next Update has returned, and stays
\* absent until it is registered again.
C8_RemovedInstallationStaysAbsent ==
    \A id \in InstallationIds :
       remInstallation[id] = "applied" => id \notin DOMAIN Installations

\* C9 as stated: an instance whose RemoveInstance succeeded is absent from the
\* live instances once the next Update has returned, and the polling loop
\* visits it in no later cycle until it is registered again.
C9_RemovedInstanceStaysAbsent ==
    \A id \in InstanceIds :
       remInstance[id] = "applied" =>
          /\ id \notin InstanceIdsOf(Instances)
          /\ id \notin InstanceIdsOf(pollRange)

\* C10: RemoveInstallation or RemoveInstance of an id that is not live returns
\* the not-found error and leaves the live collections and the four staging
\* lists as they were.
C10_RemoveUnknownChangesNothing ==
    [][/\ (Called("RemoveInstallation")
           /\ lastCall'.id \notin DOMAIN Installations) =>
             /\ lastCall'.perr = "installation not found"
             /\ provVars' = provVars
       /\ (Called("RemoveInstance")
           /\ lastCall'.id \notin InstanceIdsOf(Instances)) =>
             /\ lastCall'.perr = "instance not found"
             /\ provVars' = provVars]_vars

\* RemoveInstance of an id that is not live was refused while another
\* instance is live.
C10_Witness ==
    /\ lastCall.op = "RemoveInstance"
    /\ lastCall.perr = "instance not found"
    /\ Len(Instances) > 0
    /\ lastCall.id \notin InstanceIdsOf(Instances)

\* C11: in an Update that follows an Update with no registry call since the
\* first one started, no statement changes the live installations or the
\* live instances: the live sets after the second Update are those after the
\* first.
C11_SecondUpdateChangesNothing ==
    [][(pollPC \in UpdatePCs /\ updRun # "none" /\ updQuiet) =>
          /\ Installations' = Installations
          /\ Instances' = Instances]_vars

\* Two Updates in a row have completed with no registry call, with live
\* installations and instances.
C11_Witness ==
    /\ updRun = "twice"
    /\ pollPC = "range"
    /\ Len(Instances) > 0
    /\ DOMAIN Installations # {}

\* C12: an AddInstance callback that fails at writing the instance row, at
\* writing its configuration, at creating a thing or at storing the thing id
\* is answered with 500 and leaves the registry as it was: the instance is not
\* staged, so no Update makes it live and the polling loop never reaches it.
C12_FailedAddInstanceNotRegistered ==
    [][(Called("AddInstance") /\ lastCall'.err # "") =>
          /\ httpResponse'.Code = StatusInternalServerError
          /\ provVars' = provVars
          /\ pollVars' = pollVars]_vars

C12_Witness ==
    /\ lastCall.op = "AddInstance"
    /\ lastCall.err # ""
    /\ lastCall.id \in DOMAIN dbInstances
    /\ dbInstances[lastCall.id].things = << >>
    /\ httpResponse.Code = StatusInternalServerError
    /\ pollPC = "range"
    /\ lastCall.id \notin InstanceIdsOf(Instances)
    /\ lastCall.id \notin InstanceIdsOf(newInstances)

\* C13: an AddInstallation callback stages the installation only when its row
\* and its configuration have been written: after a failing call nothing is
\* staged and an error is answered; after a successful call the database holds
\* the row with the configuration, the installation is the last staged one and
\* the answer is 201 with no body.
C13_InstallationStagedAfterPersisted ==
    [][Called("AddInstallation") =>
          IF lastCall'.err # ""
          THEN /\ provVars' = provVars
               /\ httpResponse'.Code >= StatusBadRequest
               /\ httpResponse'.Error = lastCall'.err
          ELSE /\ lastCall'.id \in DOMAIN dbInstallations'
               /\ Len(newInstallations') = Len(newInstallations) + 1
               /\ newInstallations'[Len(newInstallations')] =
                     Installation(lastCall'.id, dbInstallations'[lastCall'.id])
               /\ httpResponse' = WriteHeader(StatusCreated)]_vars

C13_Witness ==
    /\ lastCall.op = "AddInstallation"
    /\ lastCall.err = ""
    /\ httpResponse.Code = StatusCreated
    /\ Len(newInstallations) > 0
    /\ Len(dbInstallations[lastCall.id]) > 0

\* C14: a RemoveInstallation or RemoveInstance callback asks the registry to
\* remove the id whether or not the row can be deleted: an id that was live is
\* staged for removal even when the delete fails. An error of the registry is
\* not answered: the row is deleted all the same. A failing delete is answered
\* with 500 and leaves the row, anything else is answered with 204 and the row
\* is gone.
C14_RemoveRegistryThenDatabase ==
    [][(Called("RemoveInstallation") \/ Called("RemoveInstance")) =>
          LET id == lastCall'.id
              installation == lastCall'.op = "RemoveInstallation"
              wasLive == IF installation THEN id \in DOMAIN Installations
                         ELSE id \in InstanceIdsOf(Instances)
              staged == IF installation THEN id \in Range(installationsToRemove')
                        ELSE id \in Range(instancesToRemove')
              rowAfter == IF installation THEN id \in DOMAIN dbInstallations'
                          ELSE id \in DOMAIN dbInstances'
          IN
          /\ wasLive => (staged /\ lastCall'.perr = "")
          /\ ~wasLive => lastCall'.perr # ""
          /\ lastCall'.err # lastCall'.perr \/ lastCall'.err = ""
          /\ IF lastCall'.err # ""
             THEN /\ httpResponse'.Code = StatusInternalServerError
                  /\ dbVars' = dbVars
             ELSE /\ httpResponse' = WriteHeader(StatusNoContent)
                  /\ ~rowAfter]_vars

C14_Witness ==
    /\ lastCall.op = "RemoveInstance"
    /\ lastCall.err # ""
    /\ lastCall.perr = ""
    /\ lastCall.id \in Range(instancesToRemove)
    /\ lastCall.id \in DOMAIN dbInstances
    /\ httpResponse.Code = StatusInternalServerError

\* C15: an action callback for a thing id that no instance in the database
\* owns is answered with 200 and an ActionResponse of status FAILED and error
\* "thing ID was not found at connector"; RequestAction is not called and
\* nothing is put on the action channel.
C15_UnknownThingAnsweredFailed ==
    [][(nCalls' = nCalls + 1
          /\ lastCall'.op \in {"PerformAction", "RequestAction"}
          /\ InstancesByThingId(dbInstances, lastCall'.id) = {}) =>
          /\ httpResponse'.Code = StatusOK
          /\ Len(httpResponse'.Body) = 1
          /\ httpResponse'.Body[1].Status = ActionRequestStatusFailed
          /\ httpResponse'.Body[1].Error = "thing ID was not found at connector"
          /\ lastCall'.op # "RequestAction"
          /\ actionChannel' = actionChannel
          /\ emitted' = emitted]_vars

C15_Witness ==
    /\ lastCall.op = "PerformAction"
    /\ InstancesByThingId(dbInstances, lastCall.id) = {}
    /\ httpResponse.Code = StatusOK
    /\ httpResponse.Body[1].Status = ActionRequestStatusFailed
    /\ actionChannel = << >>
    /\ Len(Instances) > 0

\* C16: for an action callback on a known instance the provider's status
\* decides the answer: Completed gives 204 with no body, Pending gives 200
\* with an ActionResponse of the request's id and status Pending, and Failed
\* with an error gives an answer whose body is the ActionResponse with status
\* Failed.
C16_StatusMapsToAnswer ==
    (lastCall.op = "RequestAction" /\ httpResponse # NoResponse) =>
        /\ (lastCall.status = ActionRequestStatusCompleted /\ lastCall.err = "") =>
              httpResponse = WriteHeader(StatusNoContent)
        /\ (lastCall.status = ActionRequestStatusPending /\ lastCall.err = "") =>
              /\ httpResponse.Code = StatusOK
              /\ httpResponse.Body = << [ID |-> nCalls,
                                         Status |-> ActionRequestStatusPending,
                                         Error |-> ""] >>
        /\ (lastCall.status = ActionRequestStatusFailed /\ lastCall.err # "") =>
              /\ Len(httpResponse.Body) = 1
              /\ httpResponse.Body[1].Status = ActionRequestStatusFailed

\* Every request the model sends to an endpoint.
CallbackRequests == RegistryRequests \cup ActionRequests \cup DefectiveRequests

\* The Signature header of r is absent, is not base64, or is not the
\* platform's signature of the canonical payload of r.
SignatureAbsent(r) == r.Signature = EncodeToString(<< >>)
SignatureMalformed(r) == ~r.Signature.wellFormed
SignatureUnverified(r) ==
    ~Verify(PublicKey, << r.Method, r.URI, r.Date, r.Body >>,
            DecodeString(r.Signature).bytes)

\* The request was answered by the validation with err and nothing else
\* happened: no handler, no service, same database, registry and queues.
RejectedWith(err) ==
    /\ httpResponse' = [Code |-> StatusBadRequest, Error |-> err, Body |-> << >>]
    /\ lastCall'.op = "ServeHTTP"
    /\ dbVars' = dbVars
    /\ provVars' = provVars
    /\ chanVars' = chanVars

\* C17 as stated: a request whose Signature header is absent, is not valid
\* base64 or does not verify is rejected with BAD_SIGNATURE (400); the
\* wrapped handler and the service are not invoked and the database, the
\* staging lists and the queues are unchanged.
C17_BadSignatureRejected ==
    [][nCalls' = nCalls + 1 =>
          \A r \in CallbackRequests :
              ((SignatureAbsent(r) \/ SignatureMalformed(r) \/ SignatureUnverified(r))
                  /\ ServeHTTP(r)) => RejectedWith("BAD_SIGNATURE")]_vars

\* C17 amended: such a request is rejected with a 400 before the wrapped
\* handler runs and nothing changes. The error is BAD_SIGNATURE when the
\* header is not valid base64, else INVALID_BODY when the body cannot be read,
\* else MISSING_HEADER when the Date header is missing (an absent Signature
\* header decodes to no bytes and gets this far), else BAD_SIGNATURE.
C17_BadSignatureRejectedWith400 ==
    [][nCalls' = nCalls + 1 =>
          \A r \in CallbackRequests :
              ((SignatureAbsent(r) \/ SignatureMalformed(r) \/ SignatureUnverified(r))
                  /\ ServeHTTP(r)) =>
              RejectedWith(IF SignatureMalformed(r) THEN "BAD_SIGNATURE"
                           ELSE IF Len(r.Body) # 0 /\ ~r.readable THEN "INVALID_BODY"
                           ELSE IF r.Date = "" THEN "MISSING_HEADER"
                           ELSE "BAD_SIGNATURE")]_vars

C17_Witness ==
    /\ lastCall.op = "ServeHTTP"
    /\ lastCall.err = "BAD_SIGNATURE"
    /\ httpResponse = writeError("BAD_SIGNATURE")
    /\ Len(Instances) > 0
    /\ pollPC = "range"

\* C18 as stated: every request without the Date header is rejected with
\* MISSING_HEADER (400) and the wrapped handler is not invoked.
C18_MissingDateRejected ==
    [][nCalls' = nCalls + 1 =>
          \A r \in CallbackRequests :
              (r.Date = "" /\ ServeHTTP(r)) => RejectedWith("MISSING_HEADER")]_vars

\* C18 amended: a request without the Date header is rejected with a 400 and
\* the wrapped handler is not invoked. The error is MISSING_HEADER when its
\* Signature header is valid base64 (or absent) and its body, if any, can be
\* read; a Signature header that is not base64 gives BAD_SIGNATURE and,
\* short of that, an unreadable body gives INVALID_BODY, both checked first.
C18_MissingDateRejectedWith400 ==
    [][nCalls' = nCalls + 1 =>
          \A r \in CallbackRequests :
              (r.Date = "" /\ ServeHTTP(r)) =>
              RejectedWith(IF SignatureMalformed(r) THEN "BAD_SIGNATURE"
                           ELSE IF Len(r.Body) # 0 /\ ~r.readable THEN "INVALID_BODY"
                           ELSE "MISSING_HEADER")]_vars

C18_Witness ==
    /\ lastCall.op = "ServeHTTP"
    /\ lastCall.err = "MISSING_HEADER"
    /\ httpResponse = writeError("MISSING_HEADER")
    /\ Len(Instances) > 0
    /\ pollPC = "range"

\* The platform calls of the last relayed update that carried an action event.
IsPropertyCall(c, update) ==
    /\ c.call = "UpdateThingPropertyValue"
    /\ c.InstanceId = update.PropertyUpdateEvent[1].InstanceId
    /\ c.ThingId = update.PropertyUpdateEvent[1].ThingId
    /\ c.Value = update.PropertyUpdateEvent[1].Value

IsStatusCall(c, update) ==
    /\ c.call = "UpdateActionStatus"
    /\ c.InstanceId = update.ActionEvent[1].InstanceId
    /\ c.RequestId = update.ActionEvent[1].RequestId

\* C19: when the relay has handled an update that carries both a property
\* update and an action event and has reported the status, its platform calls
\* for that update are exactly the property update of the event followed by
\* the status update of the event: nothing before, between or after.
C19_PropertyBeforeStatus ==
    (/\ relayed.update # << >>
     /\ relayed.update[1].PropertyUpdateEvent # << >>
     /\ \E i \in 1..Len(relayed.calls) : relayed.calls[i].call = "UpdateActionStatus")
    => /\ Len(relayed.calls) = 2
       /\ IsPropertyCall(relayed.calls[1], relayed.update[1])
       /\ IsStatusCall(relayed.calls[2], relayed.update[1])

C19_Witness ==
    /\ relayed.update # << >>
    /\ relayed.update[1].PropertyUpdateEvent # << >>
    /\ Len(relayed.calls) = 2
    /\ relayed.calls[1].call = "UpdateThingPropertyValue"
    /\ relayed.calls[1].result = ""
    /\ relayed.calls[2].call = "UpdateActionStatus"
    /\ relayed.calls[2].Status = ActionRequestStatusCompleted

\* C20: the status the relay reports for an action event is Failed with an
\* error message when the property update of the same update failed, and is
\* the status and error of the event when the property update succeeded or
\* the update has no property update.
C20_FailedPropertyReportsFailed ==
    \A i \in 1..Len(relayed.calls) :
        relayed.calls[i].call = "UpdateActionStatus" =>
            LET update == relayed.update[1]
                propertyFailed ==
                    /\ update.PropertyUpdateEvent # << >>
                    /\ \/ i = 1
                       \/ relayed.calls[1].result # ""
            IN IF propertyFailed
               THEN /\ relayed.calls[i].Status = ActionRequestStatusFailed
                    /\ relayed.calls[i].Error # ""
               ELSE /\ relayed.calls[i].Status = update.ActionEvent[1].Response.Status
                    /\ relayed.calls[i].Error = update.ActionEvent[1].Response.Error

C20_Witness ==
    /\ relayed.update # << >>
    /\ relayed.update[1].PropertyUpdateEvent # << >>
    /\ relayed.update[1].ActionEvent[1].Response.Status = ActionRequestStatusCompleted
    /\ Len(relayed.calls) = 2
    /\ relayed.calls[1].result # ""
    /\ relayed.calls[2].Status = ActionRequestStatusFailed
    /\ relayed.calls[2].Error = "failed to update property platform unavailable"

\* C21: a polling loop woken from its sleep by the cancellation starts no
\* further cycle, a loop that has returned stays returned, and whenever the
\* context is cancelled the loop eventually returns.
C21_CancelStopsPolling ==
    /\ [][/\ pollPC = "ctx.Done" => pollPC' \in {"ctx.Done", "stopped"}
          /\ pollPC = "stopped" => pollVars' = pollVars]_vars
    /\ (ctxDone ~> pollPC = "stopped")

C21_Witness ==
    /\ ctxDone
    /\ pollPC = "stopped"
    /\ Len(Instances) > 0
    /\ Len(updateChannel) > 0

\* C22 as stated: Update is atomic with respect to the register and remove
\* calls of the callbacks. Whatever the interleaving, the statement that
\* empties a staging list discards only entries that Update has applied: every
\* staged instance is in the live list when newInstances is emptied, every
\* staged removal is gone from the live collection when its list is emptied,
\* and the live list never holds an instance twice.
C22_UpdateAtomicWithCallbacks ==
    [][/\ (pollPC = "clearNewInstances" /\ pollPC' # pollPC) =>
             InstanceIdsOf(newInstances) \subseteq InstanceIdsOf(Instances)
       /\ (pollPC = "clearInstancesToRemove" /\ pollPC' # pollPC) =>
             Range(instancesToRemove) \cap InstanceIdsOf(Instances) = {}
       /\ (pollPC = "clearInstallationsToRemove" /\ pollPC' # pollPC) =>
             Range(installationsToRemove) \cap DOMAIN Installations = {}
       /\ Cardinality(InstanceIdsOf(Instances')) = Len(Instances')]_vars

\* Update has made its first change and has not returned yet.
UpdateUnderWay == pollPC \in UpdatePCs \ {"RemoveInstances"}

\* C23 as stated: nobody reads the live installations or the live instances
\* while Update is changing them: the lookup of the API key by the action
\* handler (setApiKey) and the lookups of RemoveInstallation and
\* RemoveInstance by the callbacks never happen while an Update is under way.
C23_NoLookupDuringUpdate ==
    [][/\ (actPC = "getSearchResult" /\ actPC' # actPC) => ~UpdateUnderWay
       /\ (Called("RemoveInstallation") \/ Called("RemoveInstance")) =>
             ~UpdateUnderWay]_vars

\* The polling loop moves on to the next instance of the cycle and sends no
\* event.
SkipsInstance ==
    /\ pollPC' = "body"
    /\ pollIdx' = pollIdx + 1
    /\ pollRange' = pollRange
    /\ updateChannel' = updateChannel

\* C24: in a poll cycle an instance with no thing id, an instance whose API
\* key cannot be resolved and an instance whose fetch fails are skipped with
\* no event, and the loop goes on with the next instance of the same cycle:
\* the cycle ends only after the last instance, and the loop neither panics
\* nor returns.
C24_BadInstanceSkipped ==
    [][pollVars' # pollVars =>
          /\ (pollPC = "body" /\ pollIdx <= Len(pollRange)
                /\ Len(pollRange[pollIdx].ThingMapping) = 0) => SkipsInstance
          /\ (pollPC = "getRandomGif"
                /\ setApiKey(pollRange[pollIdx].InstallationID).err # "") =>
                SkipsInstance
          /\ (pollPC = "Random" /\ pollPC' # "UpdateEvent") => SkipsInstance
          /\ (pollPC \in IterPCs /\ pollPC' \notin IterPCs) =>
                (pollPC' = "ticker" /\ pollIdx > Len(pollRange))]_vars

C24_Witness ==
    /\ pollPC = "body"
    /\ pollIdx = 2
    /\ Len(pollRange) = 2
    /\ setApiKey(pollRange[1].InstallationID).err # ""
    /\ Len(pollRange[1].ThingMapping) > 0
    /\ updateChannel = << >>

\* The property update of the polling loop for an instance and a fetched URL.
RandomUpdate(instance, url) ==
    UpdateEvent(<< >>, << PropertyUpdateEvent(instance.ID, instance.ThingMapping[1],
                                              RandomComponentId, RandomPropertyId,
                                              url) >>)

\* C25: in a poll cycle the instances are visited one after the other, no
\* instance id twice, and giphyClient.Random is called at most once for the
\* instance visited (a fetch is never started again for the same position).
\* An event is sent only after a successful fetch, and it is the one property
\* update of that instance: its id, its first thing id, the random component
\* and property, the fetched URL.
C25_OneFetchOneEventPerInstance ==
    [][pollVars' # pollVars =>
          /\ Cardinality(InstanceIdsOf(pollRange')) = Len(pollRange')
          /\ pollPC' = "getRandomGif" => (pollPC = "body" /\ pollIdx' = pollIdx)
          /\ pollPC' = "Random" => (pollPC = "getRandomGif" /\ pollIdx' = pollIdx)
          /\ pollPC = "Random" =>
                \/ pollPC' = "UpdateEvent" /\ pollIdx' = pollIdx
                                           /\ pollGif' = "randomUrl"
                                           /\ updateChannel' = updateChannel
                \/ SkipsInstance
          /\ pollPC = "UpdateEvent" =>
                /\ pollPC' = "body" /\ pollIdx' = pollIdx + 1
                /\ updateChannel' = Append(updateChannel,
                                           RandomUpdate(pollRange[pollIdx], pollGif))
          /\ pollPC # "UpdateEvent" => updateChannel' = updateChannel]_vars

\* The event with status Failed and the given error for a dequeued action.
FailedFor(action, error) ==
    [ActionEvent |-> << [InstanceId |-> action.Instance.ID, RequestId |-> action.ID,
                         Response |-> [Status |-> ActionRequestStatusFailed,
                                       Error |-> error]] >>,
     PropertyUpdateEvent |-> << >>]

\* C26: for a dequeued "search" action, an error of setApiKey gives the event
\* Failed with that error, an error of giphyClient.Search gives Failed with
\* the error of the client, an empty result set gives Failed with "no search
\* result found"; a dequeued action with another id gives Failed with "Action
\* not supported". The event built is the event sent.
C26_FailuresReported ==
    [][/\ (actPC = "receive" /\ actPC' # actPC
            /\ Head(actionChannel).ActionID # "search") =>
             /\ actPC' = "UpdateEvent"
             /\ actUpdate' = << FailedFor(Head(actionChannel), "Action not supported") >>
       /\ (actPC = "getSearchResult" /\ actPC' # actPC
            /\ setApiKey(pendingAction[1].Instance.InstallationID).err # "") =>
             /\ pendingAction[1].ActionID = "search"
             /\ actPC' = "UpdateEvent"
             /\ actUpdate' = << FailedFor(pendingAction[1],
                       setApiKey(pendingAction[1].Instance.InstallationID).err) >>
       /\ ActSearch("error") =>
             /\ actPC' = "UpdateEvent"
             /\ actUpdate' = << FailedFor(pendingAction[1], "search failed") >>
       /\ ActSearch("empty") =>
             /\ actPC' = "UpdateEvent"
             /\ actUpdate' = << FailedFor(pendingAction[1], "no search result found") >>
       /\ (actPC = "UpdateEvent" /\ actPC' # actPC) =>
             updateChannel' = Append(updateChannel, actUpdate[1])]_vars

\* The event of a search with an empty result set has been sent.
C26_Witness ==
    \E e \in Range(updateChannel) :
       /\ e.ActionEvent # << >>
       /\ e.ActionEvent[1].Response.Status = ActionRequestStatusFailed
       /\ e.ActionEvent[1].Response.Error = "no search result found"
       /\ e.PropertyUpdateEvent = << >>

\* C27: the action queued by an accepted request carries the id answered to
\* the caller, the thing id of the request and the instance that owns that
\* thing; the event the handler builds for a dequeued action carries the
\* action's request id and its instance's id, and when its status is Completed
\* its property update is for the thing of the request, of that instance, with
\* the URL of the search result; the event built is the event sent.
C27_EventCarriesRequestAndInstance ==
    [][/\ Len(actionChannel') > Len(actionChannel) =>
             LET a == actionChannel'[Len(actionChannel')] IN
             /\ a.ID = nCalls'
             /\ a.ID \in DOMAIN emitted'
             /\ Len(httpResponse'.Body) = 1
             /\ httpResponse'.Body[1].ID = a.ID
             /\ a.ThingID = lastCall'.id
             /\ a.Instance.ID \in InstancesByThingId(dbInstances, a.ThingID)
       /\ (actUpdate' # actUpdate /\ actUpdate' # << >>) =>
             LET a == pendingAction'[1]
                 e == actUpdate'[1]
             IN
             /\ Len(e.ActionEvent) = 1
             /\ e.ActionEvent[1].RequestId = a.ID
             /\ e.ActionEvent[1].InstanceId = a.Instance.ID
             /\ e.ActionEvent[1].Response.Status = ActionRequestStatusCompleted =>
                   e.PropertyUpdateEvent =
                      << [ThingId |-> a.ThingID, InstanceId |-> a.Instance.ID,
                          ComponentId |-> SearchComponentId,
                          PropertyId |-> SearchPropertyId, Value |-> "searchUrl"] >>
       /\ (actPC = "UpdateEvent" /\ actPC' # actPC) =>
             /\ updateChannel' = Append(updateChannel, actUpdate[1])
             /\ actUpdate[1].ActionEvent[1].RequestId = pendingAction[1].ID]_vars

\* The Completed event of the accepted search is in the update channel, for
\* the thing the request named.
C27_Witness ==
    /\ lastCall.op = "RequestAction"
    /\ \E e \in Range(updateChannel) :
          /\ e.ActionEvent # << >>
          /\ e.ActionEvent[1].RequestId = nCalls
          /\ e.ActionEvent[1].Response.Status = ActionRequestStatusCompleted
          /\ e.PropertyUpdateEvent # << >>
          /\ e.PropertyUpdateEvent[1].ThingId = lastCall.id
          /\ e.PropertyUpdateEvent[1].Value = "searchUrl"

\* A channel changes by one send at its end or one receive at its head.
SentOrReceived(channel, channel2, size) ==
    \/ channel2 = channel
    \/ Len(channel) > 0 /\ channel2 = Tail(channel)
    \/ /\ Len(channel) < size
       /\ Len(channel2) = Len(channel) + 1
       /\ SubSeq(channel2, 1, Len(channel)) = channel

\* C28: the update channel never holds more than 5 events and the action
\* channel never more than 5 actions. While the update channel is full the
\* polling loop and the action handler stay at their send, and while the
\* action channel is full no request is accepted; with space the send can be
\* made. A channel only changes by a send at its end or a receive at its
\* head, and the event sent is the one the sender held.
C28_ChannelsBoundedProducersBlock ==
    /\ [](/\ Len(updateChannel) <= updateChannelBufferSize
          /\ Len(actionChannel) <= actionChannelBufferSize
          /\ (pollPC = "UpdateEvent" /\ Len(updateChannel) < updateChannelBufferSize)
                => ENABLED PollUpdateEvent
          /\ (actPC = "UpdateEvent" /\ Len(updateChannel) < updateChannelBufferSize)
                => ENABLED ActUpdateEvent
          /\ (nCalls < MaxBurst /\ Len(actionChannel) < actionChannelBufferSize)
                => ENABLED ActionBurst)
    /\ [][/\ SentOrReceived(updateChannel, updateChannel', updateChannelBufferSize)
          /\ SentOrReceived(actionChannel, actionChannel', actionChannelBufferSize)
          /\ Len(updateChannel) = updateChannelBufferSize =>
                /\ pollPC = "UpdateEvent" => pollVars' = pollVars
                /\ actPC = "UpdateEvent" => actVars' = actVars
          /\ Len(actionChannel) = actionChannelBufferSize => nCalls' = nCalls
          /\ (actPC = "UpdateEvent" /\ actPC' # actPC) =>
                /\ updateChannel' = Append(updateChannel, actUpdate[1])
                /\ actionChannel' = actionChannel
          /\ (pollPC = "UpdateEvent" /\ pollPC' # pollPC) =>
                /\ updateChannel' = Append(updateChannel,
                                           RandomUpdate(pollRange[pollIdx], pollGif))
                /\ actionChannel' = actionChannel
          /\ nCalls' # nCalls =>
                /\ actionChannel' = Append(actionChannel,
                                           actionChannel'[Len(actionChannel')])
                /\ updateChannel' = updateChannel]_vars

\* Both channels are full; the polling loop and the action handler each hold
\* an event they cannot send yet.
C28_Witness ==
    /\ Len(updateChannel) = updateChannelBufferSize
    /\ Len(actionChannel) = actionChannelBufferSize
    /\ pollPC = "UpdateEvent"
    /\ actPC = "UpdateEvent"

\* The request ids of a sequence of pending actions, and of the action events
\* in a sequence of updates.
RECURSIVE ActionIdsOf(_)
ActionIdsOf(actions) ==
    IF actions = << >> THEN << >>
    ELSE << Head(actions).ID >> \o ActionIdsOf(Tail(actions))

RECURSIVE RequestIdsOf(_)
RequestIdsOf(updates) ==
    IF updates = << >> THEN << >>
    ELSE (IF Head(updates).ActionEvent = << >> THEN << >>
          ELSE << Head(updates).ActionEvent[1].RequestId >>)
         \o RequestIdsOf(Tail(updates))

\* The accepted requests on their way, from the one whose event is next at
\* the relay to the one accepted last.
OnTheirWay ==
    RequestIdsOf(updateChannel) \o ActionIdsOf(pendingAction)
       \o ActionIdsOf(actionChannel)

\* C29: requests being numbered in the order of their acceptance, the events
\* waiting for the relay, the action in the handler's hands and the actions
\* queued are in that order with none missing, after the event relayed last;
\* the handler takes the action at the head of the action channel and the
\* relay the event at the head of the update channel.
C29_AcceptanceOrderKept ==
    /\ [](/\ \A i \in 1..(Len(OnTheirWay) - 1) : OnTheirWay[i + 1] = OnTheirWay[i] + 1
          /\ OnTheirWay # << >> =>
                /\ OnTheirWay[Len(OnTheirWay)] = nCalls
                /\ OnTheirWay[1] = IF relayed.update = << >> THEN 1
                                   ELSE relayed.update[1].ActionEvent[1].RequestId + 1
          /\ (OnTheirWay = << >> /\ nCalls > 0) =>
                /\ relayed.update # << >>
                /\ relayed.update[1].ActionEvent[1].RequestId = nCalls)
    /\ [][/\ (pendingAction' # pendingAction /\ pendingAction' # << >>) =>
                /\ actionChannel # << >>
                /\ pendingAction' = << Head(actionChannel) >>
                /\ actionChannel' = Tail(actionChannel)
          /\ Len(updateChannel') < Len(updateChannel) =>
                /\ updateChannel' = Tail(updateChannel)
                /\ Head(updateChannel).ActionEvent # << >> =>
                      relayed'.update = << Head(updateChannel) >>
          /\ relayed' # relayed =>
                /\ updateChannel # << >>
                /\ updateChannel' = Tail(updateChannel)
                /\ relayed'.update = << Head(updateChannel) >>]_vars

\* The event of the first request has been relayed, that of the second waits
\* in the update channel and the third action is in the handler's hands.
C29_Witness ==
    /\ relayed.update # << >>
    /\ relayed.update[1].ActionEvent[1].RequestId = 1
    /\ RequestIdsOf(updateChannel) = << 2 >>
    /\ ActionIdsOf(pendingAction) = << 3 >>

\* Where the action handler is while it is in its loop over the action channel.
ActLoopPCs == {"receive", "getSearchResult", "Search", "UpdateEvent"}

\* C30: once the context of Run is cancelled, the action handler leaves its
\* loop over the action channel, the channel having been drained or closed,
\* so that no goroutine started by Run is left: the polling loop has stopped
\* and the action handler has returned.
C30_HandlerReturnsOnShutdown ==
    ctxDone ~> (pollPC = "stopped" /\ actPC \notin ActLoopPCs)

\* A sequence is the beginning of another.
IsPrefix(s, t) == Len(s) <= Len(t) /\ SubSeq(t, 1, Len(s)) = s

\* The staged additions of a cycle reach the live collections: a staged
\* addition stays staged until AddNewInstances / AddNewInstallations, which
\* make all of them live, and the live instances then stay as they are until
\* the loop ranges over them.
StagedAdditionsReflected ==
    /\ (newInstances' # newInstances /\ pollPC # "clearNewInstances") =>
          IsPrefix(newInstances, newInstances')
    /\ IsPrefix(newInstallations, newInstallations')
    /\ (pollPC = "AddNewInstances" /\ pollPC' # pollPC) =>
          Range(newInstances) \subseteq Range(Instances')
    /\ (pollPC = "AddNewInstallations" /\ pollPC' # pollPC) =>
          \A i \in 1..Len(newInstallations) :
             newInstallations[i].ID \in DOMAIN Installations'
    /\ (pollPC \in {"clearNewInstances", "RemoveInstallations",
                    "clearInstallationsToRemove", "AddNewInstallations"}) =>
          Instances' = Instances
    /\ (pollPC = "range" /\ pollPC' # pollPC) => pollRange' = Instances

\* Every cycle begins with Update: the loop leaves the ticker for Update only,
\* and reaches its first instance from the end of Update only.
CycleBeginsWithUpdate ==
    /\ (pollPC = "ticker" /\ pollPC' # pollPC) => pollPC' = "RemoveInstances"
    /\ (pollPC' = "range" /\ pollPC' # pollPC) => pollPC = "AddNewInstallations"
    /\ (pollPC' \in IterPCs /\ pollPC \notin IterPCs) =>
          (pollPC = "range" /\ pollPC' = "body")

\* The removals staged before the cycle started are in force when the loop
\* ranges over the instances.
StagedRemovalsReflected ==
    (pollPC = "range" /\ pollPC' # pollPC) =>
       /\ \A id \in InstanceIds :
             remInstance[id] = "applied" => id \notin InstanceIdsOf(Instances)
       /\ \A id \in InstallationIds :
             remInstallation[id] = "applied" => id \notin DOMAIN Installations

\* C31: at startup every installation and instance of the database is staged;
\* every poll cycle begins with Update, so the loop reaches its first instance
\* only after the staged ones became live; and what was staged before a cycle
\* started, additions and removals, is in force in that cycle.
C31_StagedReflectedInCycle ==
    /\ newInstallations = GetInstallations(dbInstallations)
    /\ newInstances = GetInstances(dbInstances)
    /\ [][CycleBeginsWithUpdate /\ StagedAdditionsReflected
             /\ StagedRemovalsReflected]_vars

\* C32: an installation that is live keeps its record, that is its token and
\* its configuration, in every step that leaves it live, whatever callback,
\* step of a poll cycle or lookup of the API key the step is; and a lookup of
\* the API key changes nothing of the registry.
C32_LiveInstallationImmutable ==
    [][/\ \A id \in DOMAIN Installations \cap DOMAIN Installations' :
             Installations'[id] = Installations[id]
       /\ (pollPC = "getRandomGif" /\ pollPC' # pollPC) => provVars' = provVars]_vars

\* An update as the polling loop builds it, and as the action handler does.
OfPollingLoop(e) == e.ActionEvent = << >> /\ Len(e.PropertyUpdateEvent) = 1

OfActionHandler(e) ==
    /\ Len(e.ActionEvent) = 1
    /\ Len(e.PropertyUpdateEvent) <= 1
    /\ e.ActionEvent[1].Response.Status
          \in {ActionRequestStatusCompleted, ActionRequestStatusFailed}

\* C33: every update in the update channel carries a property update, an
\* action event or both; the update the polling loop sends carries a
\* property update and no action event; the update the action handler sends
\* carries an action event whose status is Completed or Failed.
C33_EventsWellFormed ==
    /\ [](\A e \in Range(updateChannel) : OfPollingLoop(e) \/ OfActionHandler(e))
    /\ [][/\ (pollPC = "UpdateEvent" /\ pollPC' # pollPC) =>
                OfPollingLoop(updateChannel'[Len(updateChannel')])
          /\ (actPC = "UpdateEvent" /\ actPC' # actPC) =>
                OfActionHandler(updateChannel'[Len(updateChannel')])]_vars

\* Updates of the polling loop and of the action handler wait in the update
\* channel.
C33_Witness ==
    /\ \E e \in Range(updateChannel) : OfPollingLoop(e)
    /\ \E e \in Range(updateChannel) :
          OfActionHandler(e) /\ e.ActionEvent[1].Response.Status = ActionRequestStatusFailed
    /\ actPC = "receive"

\* The installations registered with the provider under an id: staged by init
\* or by an AddInstallation callback, or live.
RegisteredAs(id) ==
    {i \in Range(newInstallations) : i.ID = id}
       \cup (IF id \in DOMAIN Installations THEN {Installations[id]} ELSE {})

\* C34: when the action handler resolves the API key for a "search" action
\* whose installation is registered with a key, by init at startup or by an
\* AddInstallation callback, it gets that key and goes on to the search,
\* whether or not an Update has run since the registration.
C34_RegisteredKeyResolved ==
    [][(actPC = "getSearchResult" /\ actPC' # actPC) =>
          LET registered == RegisteredAs(pendingAction[1].Instance.InstallationID) IN
          (\E i \in registered : GetConfig(i, "giphy_api_key").ok) =>
             /\ actPC' = "Search"
             /\ \E i \in registered : /\ GetConfig(i, "giphy_api_key").ok
                                       /\ APIKey' = GetConfig(i, "giphy_api_key").Value]_vars

\* C35: once a RemoveInstance callback for an instance id has returned
\* success and an Update has run from start to end after it, the id is not
\* among the live instances, also when the removal came before the
\* registration of the instance was applied. (An id that is live was
\* registered by an AddInstance callback that succeeded, in this run or in the
\* run that wrote the row init loaded.)
C35_RemovedInstanceAbsentAfterUpdate ==
    (/\ lastCall.op = "RemoveInstance"
     /\ lastCall.err = ""
     /\ updRun # "none") => lastCall.id \notin InstanceIdsOf(Instances)

\* C39: whatever RegisterInstances, RemoveInstance and Update calls the
\* callbacks and the poll cycles have made, no two entries of the live
\* instance list have the same id, so that RemoveInstances leaves no entry of
\* an id staged for removal.
C39_LiveInstanceIdsUnique ==
    /\ [](Cardinality(InstanceIdsOf(Instances)) = Len(Instances))
    /\ [][(pollPC = "RemoveInstances" /\ pollPC' # pollPC) =>
             Range(instancesToRemove) \cap InstanceIdsOf(Instances') = {}]_vars

\* No callback is in progress and an Update has run from start to end since
\* the last one returned.
Quiescent == updRun # "none" /\ pollPC \notin UpdatePCs

\* C36: in every quiescent state the live installations are the installations
\* of the database, with their configurations, and the live instances are the
\* instances of the database, each once.
C36_RegistryMatchesDatabase ==
    Quiescent =>
       /\ DOMAIN Installations = DOMAIN dbInstallations
       /\ \A id \in DOMAIN Installations :
             Installations[id] = Installation(id, dbInstallations[id])
       /\ InstanceIdsOf(Instances) = DOMAIN dbInstances
       /\ Cardinality(InstanceIdsOf(Instances)) = Len(Instances)

\* C38: the client lock is held by the polling loop only between setApiKey
\* and the return of giphyClient.Random, and by the action handler only
\* between setApiKey and the return of giphyClient.Search; every way out of
\* getRandomGif and getSearchResult leaves the lock free; so a goroutine
\* waiting to send on a full update channel does not hold it, and the other
\* goroutine can take it.
C38_LockOnlyAroundRequest ==
    /\ [](/\ clientLock \in {"", "poll", "act"}
          /\ clientLock = "poll" <=> pollPC = "Random"
          /\ clientLock = "act" <=> actPC = "Search"
          /\ (pollPC = "UpdateEvent" /\ actPC = "getSearchResult") =>
                ENABLED ActSetApiKey
          /\ (actPC = "UpdateEvent" /\ pollPC = "getRandomGif") =>
                ENABLED PollSetApiKey)
    /\ [][/\ (pollPC \in {"getRandomGif", "Random"} /\ pollPC' \notin {pollPC, "Random"}) =>
                clientLock' = ""
          /\ (actPC \in {"getSearchResult", "Search"} /\ actPC' \notin {actPC, "Search"}) =>
                clientLock' = ""]_vars

\* The polling loop waits to send on the full update channel while the
\* action handler holds the lock for its search.
C38_Witness ==
    /\ pollPC = "UpdateEvent"
    /\ Len(updateChannel) = updateChannelBufferSize
    /\ clientLock = "act"
    /\ actPC = "Search"

\* C37: while the relay keeps receiving from the update channel and the calls
\* of giphy return, nothing waits for ever: an action queue that is full (a
\* callback in RequestAction waits to send) gets room, an action the handler
\* has received is answered and the handler is back at its receive, and the
\* polling loop, once it sets out to fetch a GIF for an instance, gets past
\* the lock and the send on the update channel to the next instance.
C37_NoDeadlock ==
    /\ (Len(actionChannel) = actionChannelBufferSize) ~>
          (Len(actionChannel) < actionChannelBufferSize)
    /\ (actPC = "getSearchResult") ~> (actPC = "receive")
    /\ (pollPC = "getRandomGif") ~> (pollPC = "body")

\* The action queue is full, and the handler and the polling loop both wait
\* to send on the full update channel.
C37_Witness ==
    /\ Len(actionChannel) = actionChannelBufferSize
    /\ Len(updateChannel) = updateChannelBufferSize
    /\ actPC = "UpdateEvent"
    /\ pollPC = "UpdateEvent"

====
